---- MODULE Spec2Model ----
(***************************************************************************)
(* Model of semrekkers/querier: the query builder Q (querier.go), the      *)
(* record selector (selector: Fields/Only/Except/Select, extractFieldInfo) *)
(* and the schema migrator (migrator/migrator.go) running against a        *)
(* database reached through the Executor interface.                        *)
(*                                                                         *)
(* Go strings are modelled as sequences of tokens: "" is <<>>, and         *)
(* concatenation is \o.  A token is an indivisible piece of text.          *)
(***************************************************************************)
EXTENDS Integers, Sequences, FiniteSets, TLC

(***************************************************************************)
(* Bounds                                                                  *)
(***************************************************************************)
\* longest argument list handed to Migrate(models...) / Drop(models...)
MaxModels == 2

(***************************************************************************)
(* Strings                                                                 *)
(***************************************************************************)
\* querier.go:14-19
Space == <<" ">>
FieldSep == <<", ">>

\* querier.go:359-363
phName == "{name}"
phDataType == "{dataType}"
phBindVar == "{bindVar}"

\* index of the first occurrence of token t in s, 0 when absent
IndexOf(s, t) ==
  IF \E i \in 1..Len(s) : s[i] = t
  THEN CHOOSE i \in 1..Len(s) : s[i] = t /\ \A j \in 1..(i-1) : s[j] # t
  ELSE 0

\* strings.Contains(s, t) for a one-token t
Contains(s, t) == IndexOf(s, t) # 0

\* strings.Replace(s, ph, v, -1): every occurrence of token ph becomes v
RECURSIVE ReplaceAll(_, _, _)
ReplaceAll(s, ph, v) ==
  IF s = <<>> THEN <<>>
  ELSE (IF Head(s) = ph THEN v ELSE <<Head(s)>>) \o ReplaceAll(Tail(s), ph, v)

\* fmt.Sprintf(format, args...) for formats whose only verb is %s
RECURSIVE Sprintf(_, _)
Sprintf(format, args) ==
  IF format = <<>> THEN <<>>
  ELSE IF Head(format) = "%s" /\ args # <<>>
       THEN Head(args) \o Sprintf(Tail(format), Tail(args))
       ELSE <<Head(format)>> \o Sprintf(Tail(format), args)

\* mutant: the tag is cut at its last comma
SplitN2_LastComma(s) ==
  LET C == {i \in DOMAIN s : s[i] = ","}
      Cut(i) == <<SubSeq(s, 1, i - 1), SubSeq(s, i + 1, Len(s))>>
  IN  IF C = {} THEN <<s>>
      ELSE Cut(CHOOSE i \in C : \A j \in C : j <= i)

\* strings.SplitN(s, ",", 2)
SplitN2(s) ==
  LET i == IndexOf(s, ",")
  IN  IF i = 0 THEN <<s>>
      ELSE <<SubSeq(s, 1, i - 1), SubSeq(s, i + 1, Len(s))>>

\* strings.Split(s, sep) for a one-token separator
RECURSIVE SplitAll(_, _)
SplitAll(s, t) ==
  LET i == IndexOf(s, t)
  IN  IF i = 0 THEN <<s>>
      ELSE <<SubSeq(s, 1, i - 1)>> \o SplitAll(SubSeq(s, i + 1, Len(s)), t)

(***************************************************************************)
(* Go types (reflect.Type) and struct fields (reflect.StructField)         *)
(***************************************************************************)
Scalar(k) == [kind |-> k, id |-> k, scanner |-> FALSE, fields |-> <<>>]
StructT(name, isScanner, fs) ==
  [kind |-> "struct", id |-> name, scanner |-> isScanner, fields |-> fs]
TimeT == StructT("time.Time", FALSE, <<>>)
NullInt64T == StructT("sql.NullInt64", TRUE, <<>>)

SF(name, tag, type) == [Name |-> name, Tag |-> tag, Type |-> type]

\* errors
NoErr == [wrapped |-> FALSE, Table |-> <<>>, Column |-> <<>>, Err |-> "nil"]
RawErr(e) == [wrapped |-> FALSE, Table |-> <<>>, Column |-> <<>>, Err |-> e]

(***************************************************************************)
(* Dialect                                                                 *)
(***************************************************************************)
KindsInTypeMap ==
  {"string", "int", "int64", "int32", "int16", "int8", "uint", "uint64",
   "uint32", "uint16", "uint8", "float64", "float32", "bool"}

\* the package-level typeMap
typeMap(k) ==
  CASE k = "string"  -> <<"VARCHAR(255) NOT NULL">>
    [] k = "int"     -> <<"BIGINT NOT NULL">>
    [] k = "int64"   -> <<"BIGINT NOT NULL">>
    [] k = "int32"   -> <<"INT NOT NULL">>
    [] k = "int16"   -> <<"SMALLINT NOT NULL">>
    [] k = "int8"    -> <<"TINYINT NOT NULL">>
    [] k = "uint"    -> <<"BIGINT UNSIGNED NOT NULL">>
    [] k = "uint64"  -> <<"BIGINT UNSIGNED NOT NULL">>
    [] k = "uint32"  -> <<"INT UNSIGNED NOT NULL">>
    [] k = "uint16"  -> <<"SMALLINT UNSIGNED NOT NULL">>
    [] k = "uint8"   -> <<"TINYINT UNSIGNED NOT NULL">>
    [] k = "float64" -> <<"DOUBLE NOT NULL">>
    [] k = "float32" -> <<"FLOAT NOT NULL">>
    [] k = "bool"    -> <<"BOOLEAN NOT NULL">>

\* Default.TypeMapper
DefaultTypeMapper(t0) ==
  LET t == IF t0.kind = "ptr" THEN t0.elem ELSE t0
  IN  IF t.kind \in KindsInTypeMap
      THEN [dataType |-> typeMap(t.kind), ok |-> TRUE]
      ELSE CASE t.id = "[]byte"          -> [dataType |-> <<"VARBINARY(255) NULL">>, ok |-> TRUE]
             [] t.id = "time.Time"       -> [dataType |-> <<"DATETIME NOT NULL">>, ok |-> TRUE]
             [] t.id = "sql.NullString"  -> [dataType |-> <<"VARCHAR(255) NULL">>, ok |-> TRUE]
             [] t.id = "sql.NullInt64"   -> [dataType |-> <<"BIGINT NULL">>, ok |-> TRUE]
             [] t.id = "sql.NullFloat64" -> [dataType |-> <<"DOUBLE NULL">>, ok |-> TRUE]
             [] t.id = "sql.NullBool"    -> [dataType |-> <<"BOOLEAN NULL">>, ok |-> TRUE]
             [] OTHER                    -> [dataType |-> <<>>, ok |-> FALSE]

\* a pointer type *t
PtrTo(t) ==
  [kind |-> "ptr", id |-> "*" \o t.id, scanner |-> FALSE, fields |-> <<>>,
   elem |-> t]

\* the driver's nullable timestamp type, go_mysql.NullTime
NullTimeT == StructT("mysql.NullTime", TRUE, <<>>)

\* mysql.TypeMapper of the function-typed API (package sugar)
MysqlTypeMapper(t) ==
  LET Special(base) ==
        IF ~base.ok /\ t = NullTimeT
        THEN [dataType |-> <<"DATETIME NULL">>, ok |-> TRUE]
        ELSE base
  IN  Special(DefaultTypeMapper(t))

\* call frames a goroutine stack holds before the runtime stops the program
\* with a stack overflow
MaxStack == 3

\* mysql Dialect.TypeMapper of the Dialect-typed API (package querier), as
\* called at stack depth `depth`: the call d.TypeMapper(t) in its body names
\* the method itself, the embedded querier.Dialect's method being shadowed;
\* [dataType, ok, overflow]
RECURSIVE MysqlDialectTypeMapper(_, _)
MysqlDialectTypeMapper(t, depth) ==
  IF depth > MaxStack
  THEN [dataType |-> <<>>, ok |-> FALSE, overflow |-> TRUE]
  ELSE LET Returned(inner) ==
             IF inner.overflow THEN inner
             ELSE IF ~inner.ok /\ t = NullTimeT
             THEN [dataType |-> <<"DATETIME NULL">>, ok |-> TRUE, overflow |-> FALSE]
             ELSE inner
       IN  Returned(MysqlDialectTypeMapper(t, depth + 1))

\* Dialect.TypeMapper, dispatched on the dialect in use
TypeMapper(d, t) == DefaultTypeMapper(t)

\* Default.BindVar
BindVar(d, i) == <<"?">>

(***************************************************************************)
(* Field extractor and record selector                                     *)
(***************************************************************************)
Field(name, dataType) == [Name |-> name, DataType |-> dataType]

\* mutant: the name "-" is a name like any other
extractFieldInfo_NoSentinel(field, d) ==
  LET inline == /\ field.Type.kind = "struct"
                /\ field.Type.id # "time.Time"
                /\ ~field.Type.scanner
      Mapped(name, mapped) ==
        [name |-> name, dataType |-> mapped.dataType, ignore |-> FALSE,
         inlineStruct |-> FALSE, panic |-> ~mapped.ok]
      Tagged(name, tagType) ==
        IF tagType # <<>>
        THEN [name |-> name, dataType |-> tagType, ignore |-> FALSE,
              inlineStruct |-> FALSE, panic |-> FALSE]
        ELSE IF inline
        THEN [name |-> name, dataType |-> <<>>, ignore |-> FALSE,
              inlineStruct |-> TRUE, panic |-> FALSE]
        ELSE IF d # "nil"
        THEN Mapped(name, TypeMapper(d, field.Type))
        ELSE [name |-> name, dataType |-> <<>>, ignore |-> FALSE,
              inlineStruct |-> FALSE, panic |-> FALSE]
      Split(tagParts) ==
        Tagged(IF tagParts[1] # <<>> THEN tagParts[1] ELSE field.Name,
               IF Len(tagParts) = 2 THEN tagParts[2] ELSE <<>>)
  IN  Split(SplitN2(field.Tag))

\* mutant: the data type of the tag is not looked at
extractFieldInfo_TagTypeIgnored(field, d) ==
  LET inline == /\ field.Type.kind = "struct"
                /\ field.Type.id # "time.Time"
                /\ ~field.Type.scanner
      Mapped(name, mapped) ==
        [name |-> name, dataType |-> mapped.dataType, ignore |-> FALSE,
         inlineStruct |-> FALSE, panic |-> ~mapped.ok]
      Tagged(name, tagType) ==
        IF name = <<"-">>
        THEN [name |-> name, dataType |-> <<>>, ignore |-> TRUE,
              inlineStruct |-> FALSE, panic |-> FALSE]
        ELSE IF inline
        THEN [name |-> name, dataType |-> <<>>, ignore |-> FALSE,
              inlineStruct |-> TRUE, panic |-> FALSE]
        ELSE IF d # "nil"
        THEN Mapped(name, TypeMapper(d, field.Type))
        ELSE [name |-> name, dataType |-> <<>>, ignore |-> FALSE,
              inlineStruct |-> FALSE, panic |-> FALSE]
      Split(tagParts) ==
        Tagged(IF tagParts[1] # <<>> THEN tagParts[1] ELSE field.Name,
               IF Len(tagParts) = 2 THEN tagParts[2] ELSE <<>>)
  IN  Split(SplitN2(field.Tag))

\* mutant: a type the mapper rejects gets an empty data type
extractFieldInfo_MapperFailureIgnored(field, d) ==
  LET inline == /\ field.Type.kind = "struct"
                /\ field.Type.id # "time.Time"
                /\ ~field.Type.scanner
      Mapped(name, mapped) ==
        [name |-> name, dataType |-> mapped.dataType, ignore |-> FALSE,
         inlineStruct |-> FALSE, panic |-> FALSE]
      Tagged(name, tagType) ==
        IF name = <<"-">>
        THEN [name |-> name, dataType |-> <<>>, ignore |-> TRUE,
              inlineStruct |-> FALSE, panic |-> FALSE]
        ELSE IF tagType # <<>>
        THEN [name |-> name, dataType |-> tagType, ignore |-> FALSE,
              inlineStruct |-> FALSE, panic |-> FALSE]
        ELSE IF inline
        THEN [name |-> name, dataType |-> <<>>, ignore |-> FALSE,
              inlineStruct |-> TRUE, panic |-> FALSE]
        ELSE IF d # "nil"
        THEN Mapped(name, TypeMapper(d, field.Type))
        ELSE [name |-> name, dataType |-> <<>>, ignore |-> FALSE,
              inlineStruct |-> FALSE, panic |-> FALSE]
      Split(tagParts) ==
        Tagged(IF tagParts[1] # <<>> THEN tagParts[1] ELSE field.Name,
               IF Len(tagParts) = 2 THEN tagParts[2] ELSE <<>>)
  IN  Split(SplitN2(field.Tag))

\* extractFieldInfo(field, d); d = "nil" stands for a nil Dialect
extractFieldInfo(field, d) ==
  LET inline == /\ field.Type.kind = "struct"
                /\ field.Type.id # "time.Time"
                /\ ~field.Type.scanner
      Mapped(name, mapped) ==
        [name |-> name, dataType |-> mapped.dataType, ignore |-> FALSE,
         inlineStruct |-> FALSE, panic |-> ~mapped.ok]
      Tagged(name, tagType) ==
        IF name = <<"-">>
        THEN [name |-> name, dataType |-> <<>>, ignore |-> TRUE,
              inlineStruct |-> FALSE, panic |-> FALSE]
        ELSE IF tagType # <<>>
        THEN [name |-> name, dataType |-> tagType, ignore |-> FALSE,
              inlineStruct |-> FALSE, panic |-> FALSE]
        ELSE IF inline
        THEN [name |-> name, dataType |-> <<>>, ignore |-> FALSE,
              inlineStruct |-> TRUE, panic |-> FALSE]
        ELSE IF d # "nil"
        THEN Mapped(name, TypeMapper(d, field.Type))
        ELSE [name |-> name, dataType |-> <<>>, ignore |-> FALSE,
              inlineStruct |-> FALSE, panic |-> FALSE]
      Split(tagParts) ==
        Tagged(IF tagParts[1] # <<>> THEN tagParts[1] ELSE field.Name,
               IF Len(tagParts) = 2 THEN tagParts[2] ELSE <<>>)
  IN  Split(SplitN2(field.Tag))

\* a filter set: Go's nil map, or a set of names
NilSet == [nil |-> TRUE, set |-> {}]
MakeSet(S) == [nil |-> FALSE, set |-> S]

\* mutant: an Except filter skips nothing
FilterSkips_ExceptIgnored(name, filterSet, filterExclude) ==
  /\ ~filterSet.nil
  /\ name \notin filterSet.set /\ ~filterExclude

\* the filter test of makeFieldSlice: TRUE when the field is skipped
FilterSkips(name, filterSet, filterExclude) ==
  /\ ~filterSet.nil
  /\ LET inSet == name \in filterSet.set
     IN  (~inSet /\ ~filterExclude) \/ (inSet /\ filterExclude)

\* mutant: the fields of a nested struct are appended unfiltered
RECURSIVE makeFieldSliceFrom_NestedUnfiltered(_, _, _, _, _, _)
makeFieldSliceFrom_NestedUnfiltered(t, i, acc, d, filterSet, filterExclude) ==
  IF acc.panic \/ i > Len(t.fields) THEN acc
  ELSE LET cur == t.fields[i]
           Visit(info) ==
             IF info.panic THEN [acc EXCEPT !.panic = TRUE]
             ELSE IF info.ignore THEN acc
             ELSE IF info.inlineStruct
             THEN makeFieldSliceFrom_NestedUnfiltered(cur.Type, 1, acc, d, NilSet, FALSE)
             ELSE IF FilterSkips(info.name, filterSet, filterExclude) THEN acc
             ELSE [acc EXCEPT !.fields = Append(@, Field(info.name, info.dataType))]
       IN  makeFieldSliceFrom_NestedUnfiltered(t, i + 1, Visit(extractFieldInfo(cur, d)),
                                               d, filterSet, filterExclude)

\* mutant: the fields of a nested struct are appended after the fields of
\* the struct that holds it
RECURSIVE makeFieldSliceFrom_NestedLast(_, _, _, _, _, _)
makeFieldSliceFrom_NestedLast(t, i, acc, d, filterSet, filterExclude) ==
  IF acc.panic \/ i > Len(t.fields) THEN acc
  ELSE LET cur == t.fields[i]
           Rest(info, done) ==
             IF done.panic \/ ~info.inlineStruct \/ info.ignore THEN done
             ELSE makeFieldSliceFrom_NestedLast(cur.Type, 1, done, d,
                                                filterSet, filterExclude)
           Visit(info) ==
             IF info.panic THEN [acc EXCEPT !.panic = TRUE]
             ELSE IF info.ignore \/ info.inlineStruct THEN acc
             ELSE IF FilterSkips(info.name, filterSet, filterExclude) THEN acc
             ELSE [acc EXCEPT !.fields = Append(@, Field(info.name, info.dataType))]
           Step(info) ==
             Rest(info, makeFieldSliceFrom_NestedLast(t, i + 1, Visit(info), d,
                                                      filterSet, filterExclude))
       IN  Step(extractFieldInfo(cur, d))

\* makeFieldSlice, the loop from field i on; acc = [panic, fields]
RECURSIVE makeFieldSliceFrom(_, _, _, _, _, _)
makeFieldSliceFrom(t, i, acc, d, filterSet, filterExclude) ==
  IF acc.panic \/ i > Len(t.fields) THEN acc
  ELSE LET cur == t.fields[i]
           Visit(info) ==
             IF info.panic THEN [acc EXCEPT !.panic = TRUE]
             ELSE IF info.ignore THEN acc
             ELSE IF info.inlineStruct
             THEN makeFieldSliceFrom(cur.Type, 1, acc, d, filterSet, filterExclude)
             ELSE IF FilterSkips(info.name, filterSet, filterExclude) THEN acc
             ELSE [acc EXCEPT !.fields = Append(@, Field(info.name, info.dataType))]
       IN  makeFieldSliceFrom(t, i + 1, Visit(extractFieldInfo(cur, d)), d,
                              filterSet, filterExclude)

makeFieldSlice(t, fields, d, filterSet, filterExclude) ==
  makeFieldSliceFrom(t, 1, [panic |-> FALSE, fields |-> fields], d,
                     filterSet, filterExclude)

\* Fields(i): a FieldSelector on struct type t with the Default dialect
Fields(t) ==
  [t |-> t, d |-> "Default", filterSet |-> NilSet, filterExclude |-> FALSE]

SetDialect(s, d) == [s EXCEPT !.d = d]

\* mutant: Only does not look at the filter mode
Only_NeverAborts(s, names) ==
  [s |-> [s EXCEPT !.filterSet = MakeSet(s.filterSet.set \cup names)],
   panic |-> FALSE]

\* FieldSelector.Only: [s, panic]
Only(s, names) ==
  IF ~s.filterSet.nil /\ s.filterExclude
  THEN [s |-> s, panic |-> TRUE]
  ELSE [s |-> [s EXCEPT !.filterSet = MakeSet(s.filterSet.set \cup names)],
        panic |-> FALSE]

\* mutant: Except keeps no exclusion set
Except_KeepsAll(s, names) == [s |-> s, panic |-> FALSE]

\* mutant: Except records the names without switching to exclusion
Except_AsOnly(s, names) ==
  IF ~s.filterSet.nil /\ ~s.filterExclude
  THEN [s |-> s, panic |-> TRUE]
  ELSE [s |-> [s EXCEPT !.filterSet = MakeSet(s.filterSet.set \cup names)],
        panic |-> FALSE]

\* FieldSelector.Except: [s, panic]
Except(s, names) ==
  IF ~s.filterSet.nil /\ ~s.filterExclude
  THEN [s |-> s, panic |-> TRUE]
  ELSE [s |-> [s EXCEPT !.filterSet = MakeSet(s.filterSet.set \cup names),
                        !.filterExclude = TRUE],
        panic |-> FALSE]

\* mutant: Select passes no filter on
Select_Unfiltered(s) == makeFieldSlice(s.t, <<>>, s.d, NilSet, FALSE)

\* FieldSelector.Select: [panic, fields]
Select(s) == makeFieldSlice(s.t, <<>>, s.d, s.filterSet, s.filterExclude)

Names(fields) == [i \in 1..Len(fields) |-> fields[i].Name]

\* mutant: a nested struct is bound under its own name
RECURSIVE makeValueMapFrom_NoFlatten(_, _, _, _)
makeValueMapFrom_NoFlatten(t, i, path, acc) ==
  IF i > Len(t.fields) THEN acc
  ELSE LET Visit(info) ==
             IF info.ignore THEN acc
             ELSE [n \in DOMAIN acc \cup {info.name} |->
                     IF n = info.name THEN Append(path, i) ELSE acc[n]]
       IN  makeValueMapFrom_NoFlatten(t, i + 1, path,
                                      Visit(extractFieldInfo(t.fields[i], "nil")))

\* makeValueMap, the loop from field i on; acc maps a name to the path of the
\* field it refers to, path is the path of the struct value being walked
RECURSIVE makeValueMapFrom(_, _, _, _)
makeValueMapFrom(t, i, path, acc) ==
  IF i > Len(t.fields) THEN acc
  ELSE LET cur == t.fields[i]
           Visit(info) ==
             IF info.ignore THEN acc
             ELSE IF info.inlineStruct
             THEN makeValueMapFrom(cur.Type, 1, Append(path, i), acc)
             ELSE [n \in DOMAIN acc \cup {info.name} |->
                     IF n = info.name THEN Append(path, i) ELSE acc[n]]
       IN  makeValueMapFrom(t, i + 1, path, Visit(extractFieldInfo(cur, "nil")))

makeValueMap(t, path, values) == makeValueMapFrom(t, 1, path, values)

\* the empty ValueMap
EmptyValueMap == [n \in {} |-> <<>>]

\* Values(i) for an argument [ptr, t]: a pointer to, or a value of, type t:
\* [panic, values]
Values(arg) ==
  IF ~arg.ptr \/ arg.t.kind # "struct"
  THEN [panic |-> TRUE, values |-> EmptyValueMap]
  ELSE [panic |-> FALSE, values |-> makeValueMap(arg.t, <<>>, EmptyValueMap)]

\* a scan target (the interface{} handed to rows.Scan): the address of the
\* field at a path of the record, or the address of the package variable
\* `ignore`
FieldTarget(path) == [var |-> "field", path |-> path]
IgnoreTarget == [var |-> "ignore", path |-> <<>>]

\* the storage a target points to, for a ValueMap made of the record instance
\* inst: value.Addr() is a field of that instance, &ignore is the one
\* package-level variable
Address(inst, target) ==
  IF target.var = "ignore" THEN [obj |-> "querier.ignore", path |-> <<>>]
  ELSE [obj |-> inst, path |-> target.path]

Addresses(inst, targets) == {Address(inst, targets[k]) : k \in DOMAIN targets}

\* a []interface{} argument: Go's nil slice, or a slice of targets
NilTargets == [nil |-> TRUE, items |-> <<>>]
TargetList(ts) == [nil |-> FALSE, items |-> ts]

\* mutant: a column that is no key of the map gets no target
RECURSIVE MapToColumns_SkipsUnknown(_, _, _)
MapToColumns_SkipsUnknown(m, columns, values) ==
  IF columns = <<>> THEN values.items
  ELSE MapToColumns_SkipsUnknown(m, Tail(columns),
         IF Head(columns) \in DOMAIN m
         THEN TargetList(Append(values.items, FieldTarget(m[Head(columns)])))
         ELSE values)

\* ValueMap.MapToColumns(columns, values): the loop appends one target per
\* column to values
RECURSIVE MapToColumns(_, _, _)
MapToColumns(m, columns, values) ==
  IF columns = <<>> THEN values.items
  ELSE MapToColumns(m, Tail(columns),
         TargetList(Append(values.items,
                           IF Head(columns) \in DOMAIN m
                           THEN FieldTarget(m[Head(columns)])
                           ELSE IgnoreTarget)))

\* ValueMap.MapToFields(fields, values)
RECURSIVE MapToFields(_, _, _)
MapToFields(m, fields, values) ==
  IF fields = <<>> THEN values.items
  ELSE MapToFields(m, Tail(fields),
         TargetList(Append(values.items,
                           IF Head(fields).Name \in DOMAIN m
                           THEN FieldTarget(m[Head(fields).Name])
                           ELSE IgnoreTarget)))

(***************************************************************************)
(* The query builder Q                                                     *)
(***************************************************************************)
\* New(ex, d)
New(d) ==
  [ex |-> "ex", d |-> d, query |-> <<>>, sep |-> Space, preWrite |-> <<>>,
   params |-> <<>>,
   err |-> NoErr, lastInsertID |-> 0, rowsAffected |-> 0, deferred |-> <<>>,
   ran |-> <<>>]

\* Q.writeSep
writeSep(q) ==
  IF Len(q.query) > 0 THEN [q EXCEPT !.query = @ \o q.sep] ELSE q

\* Q.Write(query, params...)
Write(q, query, params) ==
  [writeSep(q) EXCEPT !.query = @ \o query, !.params = @ \o params]

\* Q.Writef(format, args...)
Writef(q, format, args) ==
  [writeSep(q) EXCEPT !.query = @ \o Sprintf(format, args)]

\* Q.WriteRaw
WriteRaw(q, s) == [q EXCEPT !.query = @ \o s]

\* mutant: Reset leaves the separator as it was
Reset_KeepsSeparator(q) ==
  [q EXCEPT !.query = <<>>, !.params = <<>>, !.err = NoErr,
            !.lastInsertID = 0, !.rowsAffected = 0, !.deferred = <<>>]

\* mutant: the separator stays as it was
SetSeparator_Ignored(q, sep) == q

\* Q.SetSeparator
SetSeparator(q, sep) == [q EXCEPT !.sep = sep]

\* Q.SetPreWrite(s)
SetPreWrite(q, s) == [q EXCEPT !.preWrite = s]

\* Q.Reset
Reset(q) ==
  [q EXCEPT !.query = <<>>, !.params = <<>>, !.sep = Space, !.err = NoErr,
            !.lastInsertID = 0, !.rowsAffected = 0, !.deferred = <<>>]

\* a []Field argument: Go's nil slice, or a slice of fields
NilFields == [nil |-> TRUE, items |-> <<>>]
FieldList(fs) == [nil |-> FALSE, items |-> fs]

\* the fmtr closure of writeFormat: the format instantiated for position i
fmtr(q, format, i, f) ==
  LET p1 == IF Contains(format, phName)
            THEN ReplaceAll(format, phName, f.Name) ELSE format
      p2 == IF Contains(format, phDataType)
            THEN ReplaceAll(p1, phDataType, f.DataType) ELSE p1
      p3 == IF Contains(format, phBindVar)
            THEN ReplaceAll(p2, phBindVar, BindVar(q.d, i)) ELSE p2
  IN  p3

RECURSIVE JoinParts(_, _, _, _, _)
JoinParts(q, format, sep, items, i) ==
  IF i > Len(items) THEN <<>>
  ELSE (IF i > 1 THEN sep ELSE <<>>) \o fmtr(q, format, i - 1, items[i])
       \o JoinParts(q, format, sep, items, i + 1)

\* Q.writeFormat(format, sep, fields, n): [q, panic]
writeFormat(q, format, sep, fields, n) ==
  IF n < 1 THEN [q |-> q, panic |-> FALSE]
  ELSE IF fields.nil /\ (Contains(format, phName) \/ Contains(format, phDataType))
  THEN [q |-> q, panic |-> TRUE]
  ELSE IF Len(fields.items) < n
  THEN [q |-> q, panic |-> TRUE]       \* &fields[i]: index out of range
  ELSE [q |-> [q EXCEPT !.query =
                 @ \o JoinParts(q, format, sep, SubSeq(fields.items, 1, n), 1)],
        panic |-> FALSE]

\* Q.WriteFields(format, sep, fields...): [q, panic]
WriteFields(q, format, sep, fields) ==
  writeFormat(writeSep(q), format, sep, fields, Len(fields.items))

\* Q.WriteValues(format, sep, values...): [q, panic]; writeFormat is handed
\* nil fields and evaluates &fields[0]
WriteValues(q, format, sep, values) ==
  LET w == writeFormat(writeSep(q), format, sep, NilFields, Len(values))
  IN  IF w.panic THEN w
      ELSE [q |-> [w.q EXCEPT !.params = @ \o values], panic |-> FALSE]

\* Q.Defer(fn), fn being the function known as id that does act with the builder
Defer(q, id, act) ==
  [q EXCEPT !.deferred = Append(@, [id |-> id, onSuccess |-> FALSE, act |-> act])]

\* Q.DeferSuccess(fn): fn wrapped in a function that looks at q.err
DeferSuccess(q, id) ==
  [q EXCEPT !.deferred = Append(@, [id |-> id, onSuccess |-> TRUE, act |-> "note"])]

\* Q.runDeferred: the deferred functions in registration order; a deferred
\* function is [id, onSuccess (registered by DeferSuccess), act]; q.ran lists
\* the functions that ran, each with the q.Error() it was shown
RECURSIVE runDeferredFrom(_, _, _)
runDeferredFrom(q, fns, i) ==
  IF i > Len(fns) THEN q
  ELSE LET fn   == fns[i]
           runs == ~fn.onSuccess \/ q.err = NoErr
           q1   == IF ~runs THEN q
                   ELSE IF fn.act = "reset"
                   THEN [Reset(q) EXCEPT !.ran = Append(@, [id |-> fn.id, err |-> q.err])]
                   ELSE [q EXCEPT !.ran = Append(@, [id |-> fn.id, err |-> q.err])]
       IN  runDeferredFrom(q1, fns, i + 1)

runDeferred(q) == runDeferredFrom(q, q.deferred, 1)

\* Q.returnErr
returnErr(q, err) == [q EXCEPT !.err = err]

\* what the Executor and the sql.Result may answer to ExecContext
ExecOutcomes == {"ok", "execErr", "rowsAffectedErr", "lastInsertIdErr"}

\* Q.ExecContext, given the executor's answer r = [outcome, rows, id]:
\* [q, err, panic]
\* ExecContext without the empty-query check of lines 163-165
ExecContext_NoEmptyCheck(q, r) ==
  LET q1 == IF r.outcome = "execErr" THEN returnErr(q, RawErr("exec failed"))
            ELSE returnErr([q EXCEPT !.rowsAffected = r.rows, !.lastInsertID = r.id], NoErr)
  IN  [q |-> runDeferred(q1), err |-> q1.err, panic |-> FALSE]

ExecContext(q, r) ==
  IF Len(q.query) = 0 THEN [q |-> q, err |-> NoErr, panic |-> TRUE]
  ELSE LET q1 ==
             CASE r.outcome = "execErr" -> returnErr(q, RawErr("exec failed"))
               [] r.outcome = "rowsAffectedErr" ->
                    returnErr([q EXCEPT !.rowsAffected = 0],
                              RawErr("RowsAffected failed"))
               [] r.outcome = "lastInsertIdErr" ->
                    returnErr([q EXCEPT !.rowsAffected = r.rows, !.lastInsertID = 0],
                              RawErr("LastInsertId failed"))
               [] OTHER ->
                    returnErr([q EXCEPT !.rowsAffected = r.rows, !.lastInsertID = r.id],
                              NoErr)
       IN  [q |-> runDeferred(q1), err |-> q1.err, panic |-> FALSE]

\* Q.AddParams(params...)
AddParams(q, params) == [q EXCEPT !.params = @ \o params]

(***************************************************************************)
(* The storage behind a builder: the byte buffer, the parameter slice and  *)
(* the callback slice are Go slices, a window [arr, len, cap] on an array  *)
(* of the heap.  Clone copies the windows, not the arrays.                 *)
(***************************************************************************)
NilSlice == [arr |-> 0, len |-> 0, cap |-> 0]

\* what a slice shows: the first len cells of its array
View(heap, s) == IF s.arr = 0 THEN <<>> ELSE SubSeq(heap[s.arr], 1, s.len)

\* append(s, items...): in place when the capacity suffices, else into a new
\* array; how much larger than needed the new array is, is the runtime's
\* choice (spare)
GoAppend(heap, s, items, spare) ==
  IF items = <<>> THEN [heap |-> heap, s |-> s]
  ELSE IF s.len + Len(items) <= s.cap
  THEN [heap |-> [heap EXCEPT ![s.arr] =
                    [i \in 1..s.cap |->
                       IF i > s.len /\ i <= s.len + Len(items)
                       THEN items[i - s.len] ELSE @[i]]],
        s |-> [s EXCEPT !.len = @ + Len(items)]]
  ELSE [heap |-> Append(heap, View(heap, s) \o items \o [i \in 1..spare |-> "free"]),
        s |-> [arr |-> Len(heap) + 1, len |-> s.len + Len(items),
               cap |-> s.len + Len(items) + spare]]

\* a builder in storage: q holds its fields, of which the text, the
\* parameters and the callbacks are read through the three slices
NewStored == [q |-> New("Default"), query |-> NilSlice, params |-> NilSlice,
              deferred |-> NilSlice]

\* the builder as its methods see it
Loaded(heap, b) ==
  [b.q EXCEPT !.query = View(heap, b.query), !.params = View(heap, b.params),
              !.deferred = View(heap, b.deferred)]

\* the builder b after a call that made q1 of it by appending: what q1 has
\* more than the builder had is appended to the slices
Stored(heap, b, q1, spare) ==
  LET Rest(new, s) == SubSeq(new, s.len + 1, Len(new))
      Three(a1, a2, a3) ==
        [heap |-> a3.heap,
         b |-> [q |-> [q1 EXCEPT !.query = <<>>, !.params = <<>>, !.deferred = <<>>],
               query |-> a1.s, params |-> a2.s, deferred |-> a3.s]]
      Two(a1, a2) ==
        Three(a1, a2, GoAppend(a2.heap, b.deferred, Rest(q1.deferred, b.deferred), spare))
      One(a1) ==
        Two(a1, GoAppend(a1.heap, b.params, Rest(q1.params, b.params), spare))
  IN  One(GoAppend(heap, b.query, Rest(q1.query, b.query), spare))

\* Q.Reset on a builder in storage: the slices are cut to length 0 and keep
\* their arrays
ResetStored(b) ==
  [q |-> Reset(b.q), query |-> [b.query EXCEPT !.len = 0],
   params |-> [b.params EXCEPT !.len = 0],
   deferred |-> [b.deferred EXCEPT !.len = 0]]

\* Q.Clone: *clone = *q copies the fields, the three slices among them
Clone(b) == b

(***************************************************************************)
(* The application's models (Model interface): table name, record type,    *)
(* CreateTable callback                                                    *)
(***************************************************************************)
ModelIds == {"m1", "m2"}

\* Model.TableName
TableName(m) == IF m = "m1" THEN <<"t1">> ELSE <<"t2">>

TableNames == {TableName(m) : m \in ModelIds}

\* the record types: m1 has a flattened nested struct and an ignored field,
\* m2 a renamed field with a tag data type
RecordType(m) ==
  IF m = "m1"
  THEN StructT("fieldsModel", FALSE,
         << SF(<<"ID">>, <<>>, Scalar("int")),
            SF(<<"Name">>, <<>>, Scalar("string")),
            SF(<<"Complex">>, <<>>,
               StructT("anon", FALSE, << SF(<<"OtherID">>, <<>>, Scalar("int")) >>)),
            SF(<<"Ignored">>, <<"-">>, StructT("empty", FALSE, <<>>)) >>)
  ELSE StructT("dummy", FALSE,
         << SF(<<"K">>, <<"k", ",", "BIGINT UNSIGNED NOT NULL AUTO_INCREMENT">>,
               Scalar("uint")),
            SF(<<"Age">>, <<>>, NullInt64T) >>)

\* Model.CreateTable(q): the extra DDL clauses the model writes
CreateTable(m, q) ==
  IF m = "m1"
  THEN Write(Write(q, <<"PRIMARY KEY (ID)">>, <<>>), <<"UNIQUE (Name)">>, <<>>)
  ELSE q

\* columns a table of the database may have: those of its record and one
\* column left from an earlier version of the application
LegacyColumn == <<"legacy">>
PossibleColumns(t) ==
  IF t = <<"t1">> THEN {<<"ID">>, <<"Name">>, <<"OtherID">>, LegacyColumn}
  ELSE {<<"k">>, <<"Age">>}

(***************************************************************************)
(* The database behind the Executor                                        *)
(***************************************************************************)
StmtKeywords == {"CREATE TABLE ", "ALTER TABLE ", "DROP TABLE ", "UPDATE "}

Invalid == [kind |-> "INVALID", table |-> <<>>, cols |-> {}]

\* the column definitions among the items of a CREATE TABLE body
ColumnItems(items) ==
  {i \in 1..Len(items) : IndexOf(items[i], " ") > 1}

ColumnOf(item) == SubSeq(item, 1, IndexOf(item, " ") - 1)

ParseCreate(text) ==
  LET k     == IndexOf(text, " (")
      body  == SubSeq(text, k + 1, Len(text) - 1)
      items == SplitAll(Tail(body), ", ")
      cols  == {ColumnOf(items[i]) : i \in ColumnItems(items)}
  IN  IF /\ k > 2
         /\ text[Len(text)] = ")"
         /\ body # <<>>
         /\ Head(body) = " "
         /\ \A i \in 1..Len(items) : items[i] # <<>>
         /\ \A i \in ColumnItems(items) :
              IndexOf(items[i], " ") < Len(items[i])
         /\ ColumnItems(items) # {}
         /\ Cardinality(cols) = Cardinality(ColumnItems(items))
      THEN [kind |-> "CREATE", table |-> SubSeq(text, 2, k - 1), cols |-> cols]
      ELSE Invalid

ParseAlter(text) ==
  LET i    == IndexOf(text, " ")
      rest == SubSeq(text, i + 2, Len(text))
      j    == IndexOf(rest, " ")
  IN  IF /\ i > 2
         /\ Len(text) > i
         /\ text[i + 1] = "ADD "
         /\ j > 1
         /\ j < Len(rest)
      THEN [kind |-> "ALTER", table |-> SubSeq(text, 2, i - 1),
            cols |-> {SubSeq(rest, 1, j - 1)}]
      ELSE Invalid

\* the statement the database reads in a text: one keyword, leading
ParseStmt(text) ==
  IF \/ text = <<>>
     \/ Head(text) \notin StmtKeywords
     \/ \E i \in 2..Len(text) : text[i] \in StmtKeywords
  THEN Invalid
  ELSE LET st == CASE Head(text) = "CREATE TABLE " -> ParseCreate(text)
                   [] Head(text) = "ALTER TABLE "  -> ParseAlter(text)
                   [] Head(text) = "DROP TABLE "   ->
                        [kind |-> "DROP", table |-> Tail(text), cols |-> {}]
                   [] OTHER -> [kind |-> "DML", table |-> <<>>, cols |-> {}]
       IN  IF st.kind \in {"CREATE", "ALTER", "DROP"} /\ st.table \notin TableNames
           THEN Invalid ELSE st

\* whether the database in state d accepts statement st
Accepts(d, st) ==
  CASE st.kind = "CREATE" -> ~d[st.table].exists
    [] st.kind = "ALTER"  -> d[st.table].exists /\ st.cols \cap d[st.table].cols = {}
    [] st.kind = "DROP"   -> d[st.table].exists
    [] st.kind = "DML"    -> TRUE
    [] OTHER              -> FALSE

\* the database after executing an accepted statement
Apply(d, st) ==
  CASE st.kind = "CREATE" ->
         [d EXCEPT ![st.table] = [exists |-> TRUE, cols |-> st.cols]]
    [] st.kind = "ALTER" ->
         [d EXCEPT ![st.table].cols = @ \cup st.cols]
    [] st.kind = "DROP" ->
         [d EXCEPT ![st.table] = [exists |-> FALSE, cols |-> {}]]
    [] OTHER -> d

\* the answers the Executor may give to ExecContext(text) in state d: a
\* statement the database rejects fails; an accepted one may still fail, or
\* take effect and have its sql.Result fail
ExecAnswers(d, text) ==
  IF Accepts(d, ParseStmt(text))
  THEN {[outcome |-> o, rows |-> 0, id |-> 0] : o \in ExecOutcomes}
  ELSE {[outcome |-> "execErr", rows |-> 0, id |-> 0]}

\* the database after the Executor answered r to ExecContext(text)
AfterExec(d, text, r) ==
  IF r.outcome = "execErr" THEN d ELSE Apply(d, ParseStmt(text))

ErrNoRecord == RawErr("no record found")

\* Q.ScanContext, given the executor's answer r = [outcome] with outcome in
\* {"ok", "queryErr", "noRows", "nextErr", "scanErr"}: [q, err, panic]; with
\* "noRows" the result set is empty, with "nextErr" fetching the first row
\* failed: rows.Next() is false in both cases and rows.Err(), which tells
\* them apart, is not read
ScanContext(q, r) ==
  IF Len(q.query) = 0 THEN [q |-> q, err |-> NoErr, panic |-> TRUE]
  ELSE LET e  == CASE r.outcome = "queryErr" -> RawErr("query failed")
                   [] r.outcome = "noRows"   -> ErrNoRecord
                   [] r.outcome = "nextErr"  -> ErrNoRecord
                   [] r.outcome = "scanErr"  -> RawErr("scan failed")
                   [] OTHER                  -> NoErr
           q1 == returnErr(q, e)
       IN  [q |-> runDeferred(q1), err |-> e, panic |-> FALSE]

\* Q.ForEachContext, given the executor's answer r = [outcome] with outcome
\* in {"ok", "queryErr", "fnErr"}: [q, err, panic]; the successful return
\* does not pass through returnErr
ForEachContext(q, r) ==
  IF Len(q.query) = 0 THEN [q |-> q, err |-> NoErr, panic |-> TRUE]
  ELSE LET e  == CASE r.outcome = "queryErr" -> RawErr("query failed")
                   [] r.outcome = "fnErr"    -> RawErr("scan failed")
                   [] OTHER                  -> NoErr
           q1 == IF e = NoErr THEN q ELSE returnErr(q, e)
       IN  [q |-> runDeferred(q1), err |-> e, panic |-> FALSE]

\* Q.FirstContext(ctx, i) for an argument i = [ptr, t], given the executor's
\* answer r = [outcome] with outcome in {"ok", "queryErr", "noRows",
\* "nextErr", "columnsErr", "scanErr"}: [q, err, panic]
FirstContext(q, arg, r) ==
  IF Len(q.query) = 0 THEN [q |-> q, err |-> NoErr, panic |-> TRUE]
  ELSE IF Values(arg).panic THEN [q |-> q, err |-> NoErr, panic |-> TRUE]
  ELSE LET e  == CASE r.outcome = "queryErr"   -> RawErr("query failed")
                   [] r.outcome = "noRows"     -> ErrNoRecord
                   [] r.outcome = "nextErr"    -> ErrNoRecord
                   [] r.outcome = "columnsErr" -> RawErr("Columns failed")
                   [] r.outcome = "scanErr"    -> RawErr("scan failed")
                   [] OTHER                    -> NoErr
           q1 == returnErr(q, e)
       IN  [q |-> runDeferred(q1), err |-> e, panic |-> FALSE]

\* Q.FindContext(ctx, i), i being a pointer to a slice of structs or not,
\* given the executor's answer r = [outcome] with outcome in {"ok",
\* "queryErr", "columnsErr", "scanErr", "nextErr"}: [q, err, panic]; the
\* return after the loop does not pass through returnErr
FindContext(q, destIsSlicePtr, r) ==
  IF Len(q.query) = 0 THEN [q |-> q, err |-> NoErr, panic |-> TRUE]
  ELSE IF ~destIsSlicePtr THEN [q |-> q, err |-> NoErr, panic |-> TRUE]
  ELSE LET e  == CASE r.outcome = "queryErr"   -> RawErr("query failed")
                   [] r.outcome = "columnsErr" -> RawErr("Columns failed")
                   [] r.outcome = "scanErr"    -> RawErr("scan failed")
                   [] OTHER                    -> NoErr
           q1 == IF e = NoErr THEN q ELSE returnErr(q, e)
       IN  [q |-> runDeferred(q1), err |-> e, panic |-> FALSE]

\* the leaf storage of one element of record type t: a value per field path,
\* all zero
ZeroElement(t) ==
  LET paths == makeValueMap(t, <<>>, EmptyValueMap)
  IN  [p \in {paths[n] : n \in DOMAIN paths} |-> <<>>]

\* mutant: the value map is made for the first element only
Bind_FirstElementOnly(valueMap, obj, t) ==
  IF DOMAIN valueMap # {} THEN valueMap
  ELSE LET paths == makeValueMap(t, <<>>, EmptyValueMap)
       IN  [n \in DOMAIN paths |-> [obj |-> obj, path |-> paths[n]]]

\* makeValueMap(element, valueMap) in the loop of FindContext: the names of
\* the element's fields are bound to the fields of the element allocated as
\* obj, the other keys of valueMap stay
Bind(valueMap, obj, t) ==
  LET paths == makeValueMap(t, <<>>, EmptyValueMap)
  IN  [n \in DOMAIN valueMap \cup DOMAIN paths |->
         IF n \in DOMAIN paths THEN [obj |-> obj, path |-> paths[n]] ELSE valueMap[n]]

\* rows.Scan(fields...): the value of column i of the row is written through
\* target i; the value is the pair of the row and the column
RECURSIVE ScanRow(_, _, _, _, _)
ScanRow(heap, fields, columns, row, i) ==
  IF i > Len(fields) THEN heap
  ELSE ScanRow(IF fields[i].var = "ignore" THEN heap
               ELSE [heap EXCEPT ![fields[i].path.obj][fields[i].path.path] =
                       <<row, columns[i]>>],
               fields, columns, row, i + 1)

\* the loop of FindContext over the rows of the result, from row k on; st is
\* [heap, dest, valueMap, fields, err]: the elements allocated so far, the
\* destination slice, and the loop's variables.  failAt is the row whose
\* Scan fails (0: none).  An element of dest is a reference to an allocated
\* element (slice of pointers) or a copy of its value.
RECURSIVE FindRows(_, _, _, _, _, _, _)
FindRows(st, t, elemIsPtr, columns, rows, failAt, k) ==
  IF k > Len(rows) THEN st
  ELSE LET obj      == Len(st.heap) + 1
           heap1    == Append(st.heap, ZeroElement(t))
           valueMap == Bind(st.valueMap, obj, t)
           fields   == MapToColumns(valueMap, columns, st.fields)
       IN  IF k = failAt
           THEN [st EXCEPT !.heap = heap1, !.valueMap = valueMap,
                           !.fields = TargetList(fields),
                           !.err = RawErr("scan failed")]
           ELSE LET heap2 == ScanRow(heap1, fields, columns, rows[k], 1)
                    el    == IF elemIsPtr THEN [ref |-> TRUE, obj |-> obj, val |-> <<>>]
                             ELSE [ref |-> FALSE, obj |-> 0, val |-> heap2[obj]]
                IN  FindRows([st EXCEPT !.heap = heap2, !.valueMap = valueMap,
                                        !.dest = Append(@, el),
                                        !.fields = TargetList(<<>>)],
                             t, elemIsPtr, columns, rows, failAt, k + 1)

(***************************************************************************)
(* The DBInfo collaborator (information-schema queries)                    *)
(***************************************************************************)
QueryOutcomes == {"ok", "queryErr"}

\* DBInfo.HasTable(q, tableName), given the executor's answer: [q, err, panic]
HasTableQuery(q, tableName) ==
  Write(Write(q, <<"SELECT EXISTS ( SELECT table_name FROM information_schema.tables WHERE table_schema = (SELECT DATABASE())">>, <<>>),
        <<"AND table_name = ? )">>, <<tableName>>)

HasTable(q, tableName, r) == ScanContext(HasTableQuery(q, tableName), r)

\* DBInfo.TableColumns(q, tableName), given the executor's answer
TableColumnsQuery(q, tableName) ==
  Write(Write(q, <<"SELECT column_name FROM information_schema.columns WHERE table_schema = (SELECT DATABASE())">>, <<>>),
        <<"AND table_name = ?">>, <<tableName>>)

TableColumns(q, tableName, r) == ForEachContext(TableColumnsQuery(q, tableName), r)

(***************************************************************************)
(* State                                                                   *)
(***************************************************************************)
Procs == {"p1", "p2"}

VARIABLES
  db,           \* the schema: table name -> [exists, cols]
  call,         \* per caller: the Migrate/Drop call in progress
  active,       \* the callers that issue calls
  interrupted,  \* per model: the columns an interrupted Migrate left to add
  lab           \* a FieldSelector in use and what Select and Values returned

vars == <<db, call, active, interrupted, lab>>

\* migrator.Result; a nil *Result has nil = TRUE
EmptyResult == [nil |-> FALSE, TablesCreated |-> <<>>, NewColumns |-> <<>>]
NilResult == [nil |-> TRUE, TablesCreated |-> <<>>, NewColumns |-> <<>>]

\* mutant: the error carries no column
MigrationError_NoColumn(table, column, err) ==
  [wrapped |-> TRUE, Table |-> table, Column |-> <<>>, Err |-> err.Err]

\* MigrationError{Table, Column, Err}
MigrationError(table, column, err) ==
  [wrapped |-> TRUE, Table |-> table, Column |-> column, Err |-> err.Err]

\* what an interrupted Migrate left behind; owed is the column whose ALTER
\* succeeded and whose callback returned an error
NoResume ==
  [set |-> FALSE, table |-> <<>>, added |-> {}, pending |-> <<>>, at |-> 0,
   owed |-> <<>>]

IdleCall ==
  [op |-> "idle", pc |-> "idle", models |-> <<>>, mi |-> 0,
   q |-> New("Default"), sel |-> Fields(StructT("none", FALSE, <<>>)),
   fields |-> <<>>, fi |-> 0, res |-> EmptyResult,
   ret |-> [res |-> NilResult, err |-> NoErr],
   log |-> <<>>, resume |-> NoResume, diff |-> <<>>]

\* an entry of a call's log: a statement or query sent to the Executor, or a
\* callback of the model
Event(by, kind, mi, text, params, col, err, answer) ==
  [by |-> by, kind |-> kind, mi |-> mi, text |-> text, params |-> params,
   col |-> col, err |-> err, answer |-> answer]

NoAnswer == [exists |-> FALSE, cols |-> {}]

ArgLists == UNION {[1..n -> ModelIds] : n \in 0..MaxModels}

\* the states a table may be in before the program starts: absent, or present
\* with some of its possible columns
TableStates(t) ==
  {[exists |-> FALSE, cols |-> {}]} \cup
  {[exists |-> TRUE, cols |-> S] : S \in (SUBSET PossibleColumns(t)) \ {{}}}

Schemas ==
  {d \in [TableNames -> UNION {TableStates(t) : t \in TableNames}] :
     \A t \in TableNames : d[t] \in TableStates(t)}

\* record types handed to Fields and Values: the test's fieldsModel; a type
\* with an ignored composite, a composite and an unmappable type that carry a
\* tag data type, a time and a scan-capable struct; a type with two levels of
\* inline structs; a type with a field no dialect maps
LabTypes ==
  { RecordType("m1"),
    StructT("tagged", FALSE,
      << SF(<<"A">>, <<"a">>, Scalar("int")),
         SF(<<"Hidden">>, <<"-">>,
            StructT("anon", FALSE, << SF(<<"Secret">>, <<>>, Scalar("int")) >>)),
         SF(<<"Raw">>, <<"raw", ",", "JSON">>,
            StructT("anon", FALSE, << SF(<<"X">>, <<>>, Scalar("int")) >>)),
         SF(<<"Odd">>, <<",", "BLOB">>, Scalar("chan")),
         SF(<<"When">>, <<>>, TimeT),
         SF(<<"Age">>, <<>>, NullInt64T) >>),
    StructT("deep", FALSE,
      << SF(<<"P">>, <<>>, Scalar("int")),
         SF(<<"Outer">>, <<>>,
            StructT("anon", FALSE,
              << SF(<<"Q">>, <<>>, Scalar("string")),
                 SF(<<"Inner">>, <<>>,
                    StructT("anon", FALSE,
                      << SF(<<"R">>, <<>>, Scalar("bool")),
                         SF(<<"S">>, <<>>, Scalar("int")) >>)),
                 SF(<<"T">>, <<>>, Scalar("int")) >>)),
         SF(<<"U">>, <<>>, Scalar("float64")) >>),
    StructT("unmapped", FALSE,
      << SF(<<"ID">>, <<>>, Scalar("int")),
         SF(<<"Bad">>, <<>>, Scalar("chan")) >>) }

\* the names the filters are given
LabNames ==
  {<<"ID">>, <<"OtherID">>, <<"a">>, <<"raw">>, <<"Secret">>, <<"R">>,
   <<"-">>, <<"nosuch">>}

\* most names in one Only or Except call, most such calls on one selector
MaxNames == 2
MaxFilterCalls == 2

NameLists == {S \in SUBSET LabNames : Cardinality(S) <= MaxNames}

NoOutput == [set |-> FALSE, panic |-> FALSE, fields |-> <<>>]
NoValues == [set |-> FALSE, panic |-> FALSE, values |-> EmptyValueMap]

\* a selector made by Fields on an argument of type t, with nothing called yet
LabOn(ptr, t) ==
  [arg |-> [ptr |-> ptr, t |-> t], s |-> Fields(t), panic |-> FALSE,
   kinds |-> <<>>, given |-> {}, out |-> NoOutput, vm |-> NoValues]

IdleLab == LabOn(TRUE, StructT("none", FALSE, <<>>))

Init ==
  /\ db \in Schemas
  /\ call = [p \in Procs |-> IdleCall]
  /\ active = {"p1"}
  /\ interrupted = [m \in ModelIds |-> NoResume]
  /\ lab = IdleLab

(***************************************************************************)
(* Migrator.Migrate / Migrator.migrateModel, one step per exchange with    *)
(* the database or the model                                               *)
(***************************************************************************)
\* mutant: a failing Migrate hands out the Result built so far
Return_PartialResult(c, err) ==
  [c EXCEPT !.pc = "done", !.ret = [res |-> c.res, err |-> err],
            !.fields = <<>>, !.fi = 0]

\* the call returns err (Migrate: with a nil Result)
Return(c, err) ==
  [c EXCEPT !.pc = "done", !.ret = [res |-> NilResult, err |-> err],
            !.fields = <<>>, !.fi = 0]

\* migrateModel returned nil: the loop of Migrate goes on, or Migrate returns
NextModel(c) ==
  IF c.mi = Len(c.models)
  THEN [c EXCEPT !.pc = "done", !.ret = [res |-> c.res, err |-> NoErr],
                 !.fields = <<>>, !.fi = 0]
  ELSE [c EXCEPT !.pc = "hasTable", !.mi = @ + 1, !.fields = <<>>, !.fi = 0]

Panicked(c) == [c EXCEPT !.pc = "panic"]

CurTable(c) == TableName(c.models[c.mi])

\* migrateModel up to the branch on tableExists; d is the database, r the
\* executor's answer to the HasTable query
migrateModelHasTable(c, d, r) ==
  LET m    == c.models[c.mi]
      t    == TableName(m)
      q0   == New("Default")
      sent == HasTableQuery(q0, t)
      h    == HasTable(q0, t, r)
      ev   == Event("dbinfo", "HasTable", c.mi, sent.query, sent.params, <<>>, h.err,
                    [exists |-> h.err = NoErr /\ d[t].exists, cols |-> {}])
      c1   == [c EXCEPT !.log = Append(@, ev), !.q = h.q]
  IN  IF h.panic THEN Panicked(c1)
      ELSE IF h.err # NoErr THEN Return(c1, h.err)
      ELSE [c1 EXCEPT !.q = Reset(h.q),
                      !.sel = SetDialect(Fields(RecordType(m)), h.q.d),
                      !.pc = IF d[t].exists THEN "columns" ELSE "create"]

\* the CREATE TABLE statement as built in q: [q, panic]
CreateStatement(c) ==
  LET m  == c.models[c.mi]
      q1 == Writef(c.q, <<"CREATE TABLE ", "%s", " (">>, <<TableName(m)>>)
      Written(sel, w) ==
        [q |-> WriteRaw(CreateTable(m, SetSeparator(w.q, FieldSep)), <<")">>),
         panic |-> sel.panic \/ w.panic]
      Selected(sel) ==
        Written(sel, WriteFields(q1, <<phName, " ", phDataType>>, FieldSep,
                                 FieldList(sel.fields)))
  IN  Selected(Select(c.sel))

\* the sentinel of the earlier Model interface
Initialize == <<>>

\* mutant: the create branch calls the per-column callback with Initialize
migrateModelCreate_CallsMigrate(c, r) ==
  LET t    == CurTable(c)
      evCb == Event("model", "Migrate", c.mi, <<>>, <<>>, Initialize, NoErr, NoAnswer)
      Logged(x, c1) ==
        IF x.err # NoErr THEN Return(c1, MigrationError(t, <<>>, x.err))
        ELSE NextModel([c1 EXCEPT !.res.TablesCreated = Append(@, t)])
      Executed(b, x) ==
        IF b.panic \/ x.panic THEN Panicked(c)
        ELSE Logged(x, [c EXCEPT !.q = x.q, !.log = @ \o
               <<evCb, Event("migrator", "exec", c.mi, b.q.query, b.q.params,
                             <<>>, x.err, NoAnswer)>>])
      Built(b) == Executed(b, ExecContext(b.q, r))
  IN  Built(CreateStatement(c))

\* migrateModel, the branch for an absent table; r is the executor's answer
migrateModelCreate(c, r) ==
  LET t    == CurTable(c)
      evCb == Event("model", "CreateTable", c.mi, <<>>, <<>>, <<>>, NoErr, NoAnswer)
      Logged(x, c1) ==
        IF x.err # NoErr THEN Return(c1, MigrationError(t, <<>>, x.err))
        ELSE NextModel([c1 EXCEPT !.res.TablesCreated = Append(@, t)])
      Executed(b, x) ==
        IF b.panic \/ x.panic THEN Panicked(c)
        ELSE Logged(x, [c EXCEPT !.q = x.q, !.log = @ \o
               <<evCb, Event("migrator", "exec", c.mi, b.q.query, b.q.params,
                             <<>>, x.err, NoAnswer)>>])
      Built(b) == Executed(b, ExecContext(b.q, r))
  IN  Built(CreateStatement(c))

\* migrateModel, the branch for an existing table up to the loop: the
\* TableColumns query and the diff; d is the database
\* mutant: a table that exists is taken to be complete
migrateModelColumns_AddsNothing(c, d, r) == NextModel([c EXCEPT !.diff = <<>>])

migrateModelColumns(c, d, r) ==
  LET t == CurTable(c)
      Diffed(sel, c2) ==
        IF sel.fields = <<>> THEN NextModel(c2)
        ELSE [c2 EXCEPT !.fields = sel.fields, !.fi = 1, !.pc = "alter"]
      Selected(tc, c1, ex, sel) ==
        IF ex.panic \/ sel.panic THEN Panicked(c1)
        ELSE Diffed(sel, [c1 EXCEPT !.q = Reset(tc.q), !.sel = ex.s,
                                    !.diff = Names(sel.fields)])
      Excepted(tc, c1, ex) == Selected(tc, c1, ex, Select(ex.s))
      Logged(tc, existing, c1) ==
        IF tc.panic THEN Panicked(c1)
        ELSE IF tc.err # NoErr THEN Return(c1, tc.err)
        ELSE Excepted(tc, c1, Except(c.sel, existing))
      Answered(sent, tc, existing) ==
        Logged(tc, existing,
               [c EXCEPT !.log = Append(@,
                   Event("dbinfo", "TableColumns", c.mi, sent.query, sent.params,
                         <<>>, tc.err, [exists |-> FALSE, cols |-> existing])),
                         !.q = tc.q])
      Queried(sent, tc) ==
        Answered(sent, tc, IF tc.err = NoErr THEN d[t].cols ELSE {})
  IN  Queried(TableColumnsQuery(c.q, t), TableColumns(c.q, t, r))

\* mutant: the loop body drops the table instead of adding the column
AlterStatement_Drops(c) ==
  [q |-> Writef(c.q, <<"DROP TABLE ", "%s">>, <<CurTable(c)>>), panic |-> FALSE]

\* the ALTER TABLE statement for the current field as built in q: [q, panic]
AlterStatement(c) ==
  LET q1 == Writef(c.q, <<"ALTER TABLE ", "%s">>, <<CurTable(c)>>)
  IN  WriteFields(q1, <<"ADD ", phName, " ", phDataType>>, <<>>,
                  FieldList(<<c.fields[c.fi]>>))

\* mutant: the loop body goes on to the callback whatever Exec returned
migrateModelAlter_IgnoresError(c, r) ==
  LET w  == AlterStatement(c)
      x  == ExecContext(w.q, r)
      ev == Event("migrator", "exec", c.mi, w.q.query, w.q.params,
                  c.fields[c.fi].Name, x.err, NoAnswer)
  IN  [c EXCEPT !.q = Reset(x.q), !.log = Append(@, ev), !.pc = "callback"]

\* migrateModel, the loop body up to the callback: ALTER, Exec, Reset
migrateModelAlter(c, r) ==
  LET t  == CurTable(c)
      f  == c.fields[c.fi]
      w  == AlterStatement(c)
      x  == ExecContext(w.q, r)
      ev == Event("migrator", "exec", c.mi, w.q.query, w.q.params, f.Name, x.err, NoAnswer)
      c1 == [c EXCEPT !.q = x.q, !.log = Append(@, ev)]
  IN  IF w.panic \/ x.panic THEN Panicked(c)
      ELSE IF x.err # NoErr THEN Return(c1, MigrationError(t, f.Name, x.err))
      ELSE [c1 EXCEPT !.q = Reset(x.q), !.pc = "callback"]

\* what a model's Migrate(q, column) callback may do with the builder
MigrateBehaviours == {"noop", "fail", "backfill", "backfillReset"}

BackfillStatement(m, q, column) ==
  Write(q, <<"UPDATE ">> \o TableName(m) \o <<" SET ">> \o column \o <<" = ?">>, <<"0">>)

\* Model.Migrate(q, column) behaving as b; r is the executor's answer to the
\* statement it executes, if any: [q, err, panic, executed]
ModelMigrate(m, q, column, b, r) ==
  CASE b = "noop" -> [q |-> q, err |-> NoErr, panic |-> FALSE, executed |-> FALSE]
    [] b = "fail" -> [q |-> q, err |-> RawErr("callback failed"), panic |-> FALSE,
                      executed |-> FALSE]
    [] OTHER ->
         LET x == ExecContext(BackfillStatement(m, q, column), r)
         IN  [q |-> IF b = "backfillReset" THEN Reset(x.q) ELSE x.q,
              err |-> x.err, panic |-> x.panic, executed |-> TRUE]

\* mutant: the loop body does not record the new column
migrateModelCallback_NoNewColumn(c, b, r) ==
  LET m    == c.models[c.mi]
      t    == TableName(m)
      f    == c.fields[c.fi]
      cb   == ModelMigrate(m, c.q, f.Name, b, r)
      sent == BackfillStatement(m, c.q, f.Name)
      evCb == Event("model", "Migrate", c.mi, <<>>, <<>>, f.Name, cb.err, NoAnswer)
      evEx == Event("model", "exec", c.mi, sent.query, sent.params, f.Name, cb.err, NoAnswer)
      c1   == [c EXCEPT !.q = cb.q,
                        !.log = @ \o (IF cb.executed THEN <<evCb, evEx>> ELSE <<evCb>>)]
  IN  IF cb.panic THEN Panicked(c)
      ELSE IF cb.err # NoErr THEN Return(c1, MigrationError(t, f.Name, cb.err))
      ELSE IF c.fi = Len(c.fields) THEN NextModel(c1)
      ELSE [c1 EXCEPT !.fi = @ + 1, !.pc = "alter"]

\* migrateModel, the rest of the loop body: the callback and NewColumns
migrateModelCallback(c, b, r) ==
  LET m    == c.models[c.mi]
      t    == TableName(m)
      f    == c.fields[c.fi]
      cb   == ModelMigrate(m, c.q, f.Name, b, r)
      sent == BackfillStatement(m, c.q, f.Name)
      evCb == Event("model", "Migrate", c.mi, <<>>, <<>>, f.Name, cb.err, NoAnswer)
      evEx == Event("model", "exec", c.mi, sent.query, sent.params, f.Name, cb.err, NoAnswer)
      c1   == [c EXCEPT !.q = cb.q,
                        !.log = @ \o (IF cb.executed THEN <<evCb, evEx>> ELSE <<evCb>>)]
      c2   == [c1 EXCEPT !.res.NewColumns = Append(@, t \o <<".">> \o f.Name)]
  IN  IF cb.panic THEN Panicked(c)
      ELSE IF cb.err # NoErr THEN Return(c1, MigrationError(t, f.Name, cb.err))
      ELSE IF c.fi = Len(c.fields) THEN NextModel(c2)
      ELSE [c2 EXCEPT !.fi = @ + 1, !.pc = "alter"]

(***************************************************************************)
(* Migrator.Drop                                                           *)
(***************************************************************************)
DropStatement(c) == Writef(c.q, <<"DROP TABLE ", "%s">>, <<CurTable(c)>>)

\* mutant: the loop of Drop does not reset the builder
DropModel_NoReset(c, r) ==
  LET t  == CurTable(c)
      w  == DropStatement(c)
      x  == ExecContext(w, r)
      ev == Event("migrator", "exec", c.mi, w.query, w.params, <<>>, x.err, NoAnswer)
      c1 == [c EXCEPT !.q = x.q, !.log = Append(@, ev)]
  IN  IF x.panic THEN Panicked(c)
      ELSE IF x.err # NoErr THEN Return(c1, MigrationError(t, <<>>, x.err))
      ELSE IF c.mi = Len(c.models)
      THEN [c1 EXCEPT !.pc = "done", !.ret = [res |-> NilResult, err |-> NoErr]]
      ELSE [c1 EXCEPT !.mi = @ + 1]

\* the loop body of Drop
DropModel(c, r) ==
  LET t  == CurTable(c)
      w  == DropStatement(c)
      x  == ExecContext(w, r)
      ev == Event("migrator", "exec", c.mi, w.query, w.params, <<>>, x.err, NoAnswer)
      c1 == [c EXCEPT !.q = x.q, !.log = Append(@, ev)]
  IN  IF x.panic THEN Panicked(c)
      ELSE IF x.err # NoErr THEN Return(c1, MigrationError(t, <<>>, x.err))
      ELSE IF c.mi = Len(c.models)
      THEN [c1 EXCEPT !.q = Reset(x.q), !.pc = "done",
                      !.ret = [res |-> NilResult, err |-> NoErr]]
      ELSE [c1 EXCEPT !.q = Reset(x.q), !.mi = @ + 1]

(***************************************************************************)
(* Actions                                                                 *)
(***************************************************************************)
NoExecAnswer == [outcome |-> "ok", rows |-> 0, id |-> 0]

\* the columns of c.fields from index i on: what is left to add
Pending(c, i) ==
  [set |-> TRUE, table |-> CurTable(c),
   added |-> {c.fields[k].Name : k \in 1..(i - 1)},
   pending |-> Names(SubSeq(c.fields, i, Len(c.fields))), at |-> 0,
   owed |-> <<>>]

\* a caller calls Migrate(ms...)
StartMigrate(p, ms) ==
  /\ call[p].pc = "idle"
  /\ call' = [call EXCEPT ![p] =
       IF ms = <<>>
       THEN [IdleCall EXCEPT !.op = "Migrate", !.pc = "done",
                             !.ret = [res |-> EmptyResult, err |-> NoErr]]
       ELSE [IdleCall EXCEPT !.op = "Migrate", !.pc = "hasTable",
                             !.models = ms, !.mi = 1]]
  /\ UNCHANGED <<db, active, interrupted>>

\* a caller calls Drop(ms...)
StartDrop(p, ms) ==
  /\ call[p].pc = "idle"
  /\ call' = [call EXCEPT ![p] =
       IF ms = <<>>
       THEN [IdleCall EXCEPT !.op = "Drop", !.pc = "done"]
       ELSE [IdleCall EXCEPT !.op = "Drop", !.pc = "drop", !.models = ms, !.mi = 1]]
  /\ UNCHANGED <<db, active, interrupted>>

HasTableStep(p) ==
  /\ call[p].pc = "hasTable"
  /\ \E o \in QueryOutcomes :
       call' = [call EXCEPT ![p] = migrateModelHasTable(call[p], db, [outcome |-> o])]
  /\ UNCHANGED <<db, active, interrupted>>

CreateStep(p) ==
  /\ call[p].pc = "create"
  /\ LET text == CreateStatement(call[p]).q.query
     IN  \E r \in ExecAnswers(db, text) :
           /\ call' = [call EXCEPT ![p] = migrateModelCreate(call[p], r)]
           /\ db' = AfterExec(db, text, r)
  /\ UNCHANGED <<active, interrupted>>

ColumnsStep(p) ==
  /\ call[p].pc = "columns"
  /\ \E o \in QueryOutcomes :
       LET c == call[p]
           m == c.models[c.mi]
           n == migrateModelColumns(c, db, [outcome |-> o])
       IN  IF o = "ok"
           THEN /\ call' = [call EXCEPT ![p] = [n EXCEPT !.resume = [interrupted[m] EXCEPT !.at = c.mi]]]
                /\ interrupted' = [interrupted EXCEPT ![m] = NoResume]
           ELSE /\ call' = [call EXCEPT ![p] = n]
                /\ UNCHANGED interrupted
  /\ UNCHANGED <<db, active>>

AlterStep(p) ==
  /\ call[p].pc = "alter"
  /\ LET c    == call[p]
         m    == c.models[c.mi]
         text == AlterStatement(c).q.query
     IN  \E r \in ExecAnswers(db, text) :
           LET n == migrateModelAlter(c, r)
           IN  /\ call' = [call EXCEPT ![p] = n]
               /\ db' = AfterExec(db, text, r)
               /\ interrupted' =
                    IF n.pc = "callback" THEN interrupted
                    ELSE [interrupted EXCEPT ![m] =
                            Pending(c, IF r.outcome = "execErr" THEN c.fi ELSE c.fi + 1)]
  /\ UNCHANGED active

CallbackStep(p) ==
  /\ call[p].pc = "callback"
  /\ LET c    == call[p]
         m    == c.models[c.mi]
         text == BackfillStatement(m, c.q, c.fields[c.fi].Name).query
     IN  \E b \in MigrateBehaviours :
           \E r \in (IF b \in {"backfill", "backfillReset"}
                     THEN ExecAnswers(db, text) ELSE {NoExecAnswer}) :
             LET n == migrateModelCallback(c, b, r)
             IN  /\ call' = [call EXCEPT ![p] = n]
                 /\ db' = IF b \in {"backfill", "backfillReset"}
                          THEN AfterExec(db, text, r) ELSE db
                 /\ interrupted' =
                      IF n.ret.err = NoErr /\ n.pc # "panic" THEN interrupted
                      ELSE [interrupted EXCEPT ![m] =
                              [Pending(c, c.fi + 1) EXCEPT !.owed =
                                 IF n.pc = "panic" THEN <<>> ELSE c.fields[c.fi].Name]]
  /\ UNCHANGED active

\* mutant: the Migrator keeps one builder for all calls
DropStep_SharedBuilder(p) ==
  /\ call[p].pc = "drop"
  /\ LET c    == [call[p] EXCEPT !.q = call["p1"].q]
         m    == c.models[c.mi]
         text == DropStatement(c).query
     IN  \E r \in ExecAnswers(db, text) :
           /\ call' = [call EXCEPT !["p1"].q = DropModel(c, r).q, ![p] = DropModel(c, r)]
           /\ db' = AfterExec(db, text, r)
           /\ interrupted' = IF r.outcome = "execErr" THEN interrupted
                             ELSE [interrupted EXCEPT ![m] = NoResume]
  /\ UNCHANGED active

DropStep(p) ==
  /\ call[p].pc = "drop"
  /\ LET c    == call[p]
         m    == c.models[c.mi]
         text == DropStatement(c).query
     IN  \E r \in ExecAnswers(db, text) :
           /\ call' = [call EXCEPT ![p] = DropModel(c, r)]
           /\ db' = AfterExec(db, text, r)
           /\ interrupted' = IF r.outcome = "execErr" THEN interrupted
                             ELSE [interrupted EXCEPT ![m] = NoResume]
  /\ UNCHANGED active

\* the caller takes the call's results
Finish(p) ==
  /\ call[p].pc = "done"
  /\ call' = [call EXCEPT ![p] = IdleCall]
  /\ UNCHANGED <<db, active, interrupted>>

\* the calling process stops in the middle of a call
Crash(p) ==
  /\ call[p].pc \in {"hasTable", "create", "columns", "alter", "callback", "drop", "panic"}
  /\ call' = [call EXCEPT ![p] = IdleCall]
  /\ interrupted' =
       LET c == call[p]
       IN  CASE c.pc = "alter"    -> [interrupted EXCEPT ![c.models[c.mi]] = Pending(c, c.fi)]
             [] c.pc = "callback" -> [interrupted EXCEPT ![c.models[c.mi]] = Pending(c, c.fi + 1)]
             [] OTHER             -> interrupted
  /\ UNCHANGED <<db, active>>

CallMigrate == (UNCHANGED lab) /\ \E p \in active : \E ms \in ArgLists : StartMigrate(p, ms)
CallDrop == (UNCHANGED lab) /\ \E p \in active : \E ms \in ArgLists : StartDrop(p, ms)
DoHasTable == (UNCHANGED lab) /\ \E p \in active : HasTableStep(p)
DoCreate == (UNCHANGED lab) /\ \E p \in active : CreateStep(p)
DoColumns == (UNCHANGED lab) /\ \E p \in active : ColumnsStep(p)
DoAlter == (UNCHANGED lab) /\ \E p \in active : AlterStep(p)
DoCallback == (UNCHANGED lab) /\ \E p \in active : CallbackStep(p)
DoDrop == (UNCHANGED lab) /\ \E p \in active : DropStep(p)
DoFinish == (UNCHANGED lab) /\ \E p \in active : Finish(p)
DoCrash == (UNCHANGED lab) /\ \E p \in active : Crash(p)

Next ==
  \/ CallMigrate
  \/ CallDrop
  \/ DoHasTable
  \/ DoCreate
  \/ DoColumns
  \/ DoAlter
  \/ DoCallback
  \/ DoDrop
  \/ DoFinish
  \/ DoCrash

Spec == Init /\ [][Next]_vars

(***************************************************************************)
(* Concurrent callers: every caller issues one call on the same Migrator,  *)
(* and the steps of the calls interleave                                   *)
(***************************************************************************)
\* longest argument list of a concurrent call
MaxConcModels == 1

ConcArgLists == UNION {[1..n -> ModelIds] : n \in 1..MaxConcModels}

\* the schemas the concurrent callers start on
ConcSchemas ==
  {d \in Schemas : /\ d[<<"t1">>].cols \in {{}, {<<"Name">>}}
                   /\ d[<<"t2">>].cols \in {{}, {<<"k">>, <<"Age">>}}}

InitConc ==
  /\ db \in ConcSchemas
  /\ call = [p \in Procs |-> IdleCall]
  /\ active = Procs
  /\ interrupted = [m \in ModelIds |-> NoResume]
  /\ lab = IdleLab

ConcCallMigrate == (UNCHANGED lab) /\ \E p \in active : \E ms \in ConcArgLists : StartMigrate(p, ms)
ConcCallDrop == (UNCHANGED lab) /\ \E p \in active : \E ms \in ConcArgLists : StartDrop(p, ms)

NextConc ==
  \/ ConcCallMigrate
  \/ ConcCallDrop
  \/ DoHasTable
  \/ DoCreate
  \/ DoColumns
  \/ DoAlter
  \/ DoCallback
  \/ DoDrop

SpecConc == InitConc /\ [][NextConc]_vars

(***************************************************************************)
(* The record selector and the value binder in use: Fields on a record,    *)
(* then Only / Except / SetDialect, then Select, and Values on the record  *)
(***************************************************************************)
InitSel ==
  /\ db = [t \in TableNames |-> [exists |-> FALSE, cols |-> {}]]
  /\ call = [p \in Procs |-> IdleCall]
  /\ active = {}
  /\ interrupted = [m \in ModelIds |-> NoResume]
  /\ lab \in {LabOn(ptr, t) : ptr \in BOOLEAN, t \in LabTypes}

Building == ~lab.panic /\ ~lab.out.set

\* s.Only(names...)
LabOnly ==
  /\ Building /\ Len(lab.kinds) < MaxFilterCalls
  /\ \E names \in NameLists :
       lab' = [lab EXCEPT !.s = Only(lab.s, names).s,
                          !.panic = Only(lab.s, names).panic,
                          !.kinds = Append(@, "Only"),
                          !.given = @ \cup names]
  /\ UNCHANGED <<db, call, active, interrupted>>

\* s.Except(names...)
LabExcept ==
  /\ Building /\ Len(lab.kinds) < MaxFilterCalls
  /\ \E names \in NameLists :
       lab' = [lab EXCEPT !.s = Except(lab.s, names).s,
                          !.panic = Except(lab.s, names).panic,
                          !.kinds = Append(@, "Except"),
                          !.given = @ \cup names]
  /\ UNCHANGED <<db, call, active, interrupted>>

\* s.SetDialect(d), d the Default dialect or nil
LabSetDialect ==
  /\ Building
  /\ \E d \in {"Default", "nil"} : lab' = [lab EXCEPT !.s = SetDialect(lab.s, d)]
  /\ UNCHANGED <<db, call, active, interrupted>>

\* s.Select()
LabSelect ==
  /\ Building
  /\ lab' = [lab EXCEPT !.out = [set |-> TRUE, panic |-> Select(lab.s).panic,
                                 fields |-> Select(lab.s).fields]]
  /\ UNCHANGED <<db, call, active, interrupted>>

\* Values(record)
LabValues ==
  /\ ~lab.panic /\ ~lab.vm.set
  /\ lab' = [lab EXCEPT !.vm = [set |-> TRUE, panic |-> Values(lab.arg).panic,
                                values |-> Values(lab.arg).values]]
  /\ UNCHANGED <<db, call, active, interrupted>>

NextSel ==
  \/ LabOnly
  \/ LabExcept
  \/ LabSetDialect
  \/ LabSelect
  \/ LabValues

SpecSel == InitSel /\ [][NextSel]_vars

(***************************************************************************)
(* The type mappers, the field extractor and the ValueMap lookups applied  *)
(* to one input each                                                       *)
(***************************************************************************)
ByteSliceT == [Scalar("slice") EXCEPT !.id = "[]byte"]

\* the types handed to the type mappers: one of each kind of the typeMap,
\* the types of the switch, the driver's nullable timestamp, two types no
\* mapper knows, and a pointer to each of them
FnTypes ==
  LET base == {Scalar(k) : k \in KindsInTypeMap} \cup
              {ByteSliceT, TimeT, NullInt64T, NullTimeT,
               StructT("sql.NullString", TRUE, <<>>),
               StructT("sql.NullFloat64", TRUE, <<>>),
               StructT("sql.NullBool", TRUE, <<>>),
               StructT("reflect.Value", FALSE, <<>>),
               Scalar("chan")}
  IN  base \cup {PtrTo(t) : t \in base}

\* the struct fields handed to the field extractor: the tags of
\* TestExtractFieldInfo, a tag whose data type holds a comma, tags with an
\* empty part, and the sentinel with a data type
FnFields ==
  {SF(<<"Age">>, tag, type) :
     tag \in {<<>>, <<"age">>, <<",", "VARCHAR(255) NULL">>, <<"other", ",", "INT">>,
              <<"-">>, <<"price", ",", "DECIMAL(10", ",", "2)">>, <<",">>,
              <<"n", ",">>, <<"-", ",", "INT">>, <<",", ",">>},
     type \in {Scalar("int"), Scalar("string"), Scalar("chan"), TimeT, NullInt64T,
               StructT("anon", FALSE, <<>>)}}

\* the column names a result set may have, in its order
ColumnLists == UNION {[1..n -> LabNames] : n \in 0..MaxNames}

\* the values argument of MapToColumns and MapToFields: nil, an emptied
\* slice, or a slice that holds targets already
Prefixes ==
  {NilTargets, TargetList(<<>>), TargetList(<<IgnoreTarget, FieldTarget(<<1>>)>>)}

IdleFn == [fn |-> "none", in |-> <<>>, out |-> <<>>]

InitFn ==
  /\ db = [t \in TableNames |-> [exists |-> FALSE, cols |-> {}]]
  /\ call = [p \in Procs |-> IdleCall]
  /\ active = {}
  /\ interrupted = [m \in ModelIds |-> NoResume]
  /\ lab = IdleFn

\* Default{}.TypeMapper(t) / DefaultTypeMapper(t)
FnDefaultTypeMapper ==
  /\ lab.fn = "none"
  /\ \E t \in FnTypes :
       lab' = [fn |-> "DefaultTypeMapper", in |-> t, out |-> DefaultTypeMapper(t)]
  /\ UNCHANGED <<db, call, active, interrupted>>

\* mysql.TypeMapper(t)
FnMysqlTypeMapper ==
  /\ lab.fn = "none"
  /\ \E t \in FnTypes :
       lab' = [fn |-> "mysql.TypeMapper", in |-> t, out |-> MysqlTypeMapper(t)]
  /\ UNCHANGED <<db, call, active, interrupted>>

\* mysql.Dialect{querier.Default{}}.TypeMapper(t), called from an empty stack
FnMysqlDialectTypeMapper ==
  /\ lab.fn = "none"
  /\ \E t \in FnTypes :
       lab' = [fn |-> "mysql.Dialect.TypeMapper", in |-> t,
               out |-> MysqlDialectTypeMapper(t, 1)]
  /\ UNCHANGED <<db, call, active, interrupted>>

\* extractFieldInfo(&field, d)
FnExtractFieldInfo ==
  /\ lab.fn = "none"
  /\ \E field \in FnFields, d \in {"Default", "nil"} :
       lab' = [fn |-> "extractFieldInfo", in |-> [field |-> field, d |-> d],
               out |-> extractFieldInfo(field, d)]
  /\ UNCHANGED <<db, call, active, interrupted>>

\* Values(&record).MapToColumns(columns, values)
FnMapToColumns ==
  /\ lab.fn = "none"
  /\ \E t \in LabTypes, columns \in ColumnLists, values \in Prefixes :
       lab' = [fn |-> "MapToColumns",
               in |-> [t |-> t, names |-> columns, values |-> values],
               out |-> MapToColumns(Values([ptr |-> TRUE, t |-> t]).values,
                                    columns, values)]
  /\ UNCHANGED <<db, call, active, interrupted>>

\* Values(&record).MapToFields(fields, values)
FnMapToFields ==
  /\ lab.fn = "none"
  /\ \E t \in LabTypes, columns \in ColumnLists, values \in Prefixes :
       lab' = [fn |-> "MapToFields",
               in |-> [t |-> t, names |-> columns, values |-> values],
               out |-> MapToFields(Values([ptr |-> TRUE, t |-> t]).values,
                                   [k \in DOMAIN columns |-> Field(columns[k], <<>>)],
                                   values)]
  /\ UNCHANGED <<db, call, active, interrupted>>

\* two scans of the same columns, each on its own builder and into its own
\* record instance: Values(&a).MapToColumns(columns, nil) and
\* Values(&b).MapToColumns(columns, nil), or MapToFields in both
FnTwoScans ==
  /\ lab.fn = "none"
  /\ \E t \in LabTypes, columns \in ColumnLists, byFields \in BOOLEAN :
       LET m  == Values([ptr |-> TRUE, t |-> t]).values
           ts == IF byFields
                 THEN MapToFields(m, [k \in DOMAIN columns |-> Field(columns[k], <<>>)],
                                  NilTargets)
                 ELSE MapToColumns(m, columns, NilTargets)
       IN  lab' = [fn |-> "TwoScans",
                   in |-> [t |-> t, names |-> columns, byFields |-> byFields],
                   out |-> [a |-> Addresses("a", ts), b |-> Addresses("b", ts)]]
  /\ UNCHANGED <<db, call, active, interrupted>>

MaxRows == 2

\* the column names of the results the bench hands to Find: names of fields
\* of the bench records, and one that no record has
FindNames == {<<"ID">>, <<"k">>, <<"extra">>}

FindColumns == UNION {[1..n -> FindNames] : n \in 0..MaxNames}

\* q.Find(&dest) on a result of n rows, dest being a []T or a []*T that is
\* empty or holds one element already; row k of the result is known as k
FnFind ==
  /\ lab.fn = "none"
  /\ \E m \in ModelIds, columns \in FindColumns, elemIsPtr \in BOOLEAN,
        prior \in BOOLEAN, n \in 0..MaxRows :
       \E failAt \in 0..n :
         LET t     == RecordType(m)
             heap0 == IF prior THEN <<ZeroElement(t)>> ELSE <<>>
             dest0 == IF ~prior THEN <<>>
                      ELSE IF elemIsPtr THEN <<[ref |-> TRUE, obj |-> 1, val |-> <<>>]>>
                      ELSE <<[ref |-> FALSE, obj |-> 0, val |-> ZeroElement(t)]>>
             st0   == [heap |-> heap0, dest |-> dest0, valueMap |-> EmptyValueMap,
                       fields |-> NilTargets, err |-> NoErr]
         IN  lab' = [fn |-> "Find",
                     in |-> [t |-> t, columns |-> columns, elemIsPtr |-> elemIsPtr,
                             prior |-> Len(dest0), rows |-> n, failAt |-> failAt],
                     out |-> FindRows(st0, t, elemIsPtr, columns, [k \in 1..n |-> k],
                                      failAt, 1)]
  /\ UNCHANGED <<db, call, active, interrupted>>

NextFn ==
  \/ FnDefaultTypeMapper
  \/ FnMysqlTypeMapper
  \/ FnMysqlDialectTypeMapper
  \/ FnExtractFieldInfo
  \/ FnMapToColumns
  \/ FnMapToFields
  \/ FnTwoScans
  \/ FnFind

SpecFn == InitFn /\ [][NextFn]_vars

(***************************************************************************)
(* One builder in use: Write / Writef / Defer / DeferSuccess / Reset and   *)
(* the terminal operations Exec, First, Scan, Find, ForEach against an     *)
(* executor that may answer anything                                       *)
(***************************************************************************)
\* most deferred functions registered at a time, most tokens of statement
\* text before a further Write or Writef
MaxDeferred == 2
MaxText == 2

\* what the bench's callbacks do with the builder they are handed: look at it,
\* or reset it as resetQ of src/mysql/mysql_test.go:91-93 does
DeferActs == {"note", "reset"}

TerminalOps == {"Exec", "First", "Scan", "Find", "ForEach"}

\* the executor's answers to ExecContext and to QueryContext
BenchExecAnswers == {[outcome |-> o, rows |-> 1, id |-> 7] : o \in ExecOutcomes}
BenchQueryAnswers ==
  {[outcome |-> o] :
     o \in {"ok", "queryErr", "noRows", "nextErr", "columnsErr", "scanErr"}}

\* the last call on the builder: its name and the name of the call before
\* it, the builder as it was, the text written, the executor's answer, the
\* error returned, whether the call aborted, whether the executor was called
NoCall == [op |-> "none", prev |-> "none", before |-> New("Default"), text |-> <<>>,
           r |-> "none", err |-> NoErr, panic |-> FALSE, contacted |-> FALSE]

InitQ ==
  /\ db = [t \in TableNames |-> [exists |-> FALSE, cols |-> {}]]
  /\ call = [p \in Procs |-> IdleCall]
  /\ active = {}
  /\ interrupted = [m \in ModelIds |-> NoResume]
  /\ lab = [q |-> New("Default"), used |-> FALSE, last |-> NoCall]

\* the bench after a builder call named op that made the builder q1; used
\* tells that a terminal operation has run on the builder since it was made
\* or reset
Called(op, q1, text) ==
  [q |-> q1, used |-> FALSE,
   last |-> [NoCall EXCEPT !.op = op, !.prev = lab.last.op,
                           !.before = lab.q, !.text = text]]

\* the builder as a terminal operation finds it: q.ran starts empty, so that
\* afterwards it lists the functions this operation ran
Entering == [lab.q EXCEPT !.ran = <<>>]

\* the bench after the terminal operation op answered r and gave x = [q,
\* err, panic]; an operation that aborted has not reached the executor
Settled(op, r, x) ==
  [q |-> x.q, used |-> TRUE,
   last |-> [op |-> op, prev |-> lab.last.op, before |-> Entering, text |-> <<>>,
             r |-> r.outcome, err |-> x.err, panic |-> x.panic,
             contacted |-> ~x.panic]]

Usable == ~lab.last.panic

\* the bench writes and registers on a builder that is new or reset
Composing == Usable /\ ~lab.used

\* the bench sets the separator and the pre-write text before it writes
Configuring == Composing /\ lab.q.query = <<>> /\ lab.q.deferred = <<>>

\* the bench runs at most two terminal operations on a builder before it
\* resets it: the second one meets what the first one left behind; a builder
\* whose separator or pre-write text was set runs one
Operable ==
  /\ Usable
  /\ ~(lab.used /\ lab.last.prev \in TerminalOps)
  /\ ~(lab.used /\ (lab.q.sep # Space \/ lab.q.preWrite # <<>>))

\* q.Write("WHERE a = ?", 1)
QWrite ==
  /\ Composing /\ Len(lab.q.query) < MaxText
  /\ lab' = Called("Write", Write(lab.q, <<"WHERE a = ?">>, <<"1">>), <<"WHERE a = ?">>)
  /\ UNCHANGED <<db, call, active, interrupted>>

\* q.Writef("LIMIT %s", n)
QWritef ==
  /\ Composing /\ Len(lab.q.query) < MaxText
  /\ lab' = Called("Writef", Writef(lab.q, <<"LIMIT ", "%s">>, << <<"5">> >>),
                   <<"LIMIT ", "5">>)
  /\ UNCHANGED <<db, call, active, interrupted>>

\* the value lists the bench hands to WriteValues
BenchValues == {<<>>, <<"1">>, <<"1", "2">>}

\* q.WriteValues("{bindVar}", ", ", values...)
QWriteValues ==
  /\ Composing /\ Len(lab.q.query) < MaxText
  /\ \E values \in BenchValues :
       LET w == WriteValues(lab.q, <<phBindVar>>, FieldSep, values)
       IN  lab' = [Called("WriteValues", w.q, values) EXCEPT !.last.panic = w.panic]
  /\ UNCHANGED <<db, call, active, interrupted>>

\* q.SetSeparator(", ")
QSetSeparator ==
  /\ Configuring /\ lab.q.sep = Space
  /\ lab' = Called("SetSeparator", SetSeparator(lab.q, FieldSep), <<>>)
  /\ UNCHANGED <<db, call, active, interrupted>>

\* q.SetPreWrite("EXPLAIN")
QSetPreWrite ==
  /\ Configuring /\ lab.q.preWrite = <<>>
  /\ lab' = Called("SetPreWrite", SetPreWrite(lab.q, <<"EXPLAIN">>), <<>>)
  /\ UNCHANGED <<db, call, active, interrupted>>

\* q.Defer(fn)
QDefer ==
  /\ Composing /\ Len(lab.q.deferred) < MaxDeferred
  /\ \E act \in DeferActs :
       lab' = Called("Defer", Defer(lab.q, Len(lab.q.deferred) + 1, act), <<>>)
  /\ UNCHANGED <<db, call, active, interrupted>>

\* q.DeferSuccess(fn)
QDeferSuccess ==
  /\ Composing /\ Len(lab.q.deferred) < MaxDeferred
  /\ lab' = Called("DeferSuccess", DeferSuccess(lab.q, Len(lab.q.deferred) + 1), <<>>)
  /\ UNCHANGED <<db, call, active, interrupted>>

\* q.Reset()
QReset ==
  /\ Usable /\ lab.last.op \notin {"none", "Reset"}
  /\ lab' = Called("Reset", [Reset(lab.q) EXCEPT !.ran = <<>>], <<>>)
  /\ UNCHANGED <<db, call, active, interrupted>>

\* q.Exec()
QExec ==
  /\ Operable
  /\ \E r \in BenchExecAnswers : lab' = Settled("Exec", r, ExecContext(Entering, r))
  /\ UNCHANGED <<db, call, active, interrupted>>

\* q.First(&record)
QFirst ==
  /\ Operable
  /\ \E r \in BenchQueryAnswers :
       lab' = Settled("First", r,
                      FirstContext(Entering, [ptr |-> TRUE, t |-> RecordType("m1")], r))
  /\ UNCHANGED <<db, call, active, interrupted>>

\* q.Scan(&dest)
QScan ==
  /\ Operable
  /\ \E r \in BenchQueryAnswers \ {[outcome |-> "columnsErr"]} :
       lab' = Settled("Scan", r, ScanContext(Entering, r))
  /\ UNCHANGED <<db, call, active, interrupted>>

\* q.Find(&records)
QFind ==
  /\ Operable
  /\ \E r \in BenchQueryAnswers \ {[outcome |-> "noRows"]} :
       lab' = Settled("Find", r, FindContext(Entering, TRUE, r))
  /\ UNCHANGED <<db, call, active, interrupted>>

\* q.ForEach(fn)
QForEach ==
  /\ Operable
  /\ \E r \in {[outcome |-> o] : o \in {"ok", "queryErr", "fnErr", "nextErr"}} :
       lab' = Settled("ForEach", r, ForEachContext(Entering, r))
  /\ UNCHANGED <<db, call, active, interrupted>>

NextQ ==
  \/ QSetSeparator
  \/ QSetPreWrite
  \/ QWrite
  \/ QWritef
  \/ QWriteValues
  \/ QDefer
  \/ QDeferSuccess
  \/ QReset
  \/ QExec
  \/ QFirst
  \/ QScan
  \/ QFind
  \/ QForEach

SpecQ == InitQ /\ [][NextQ]_vars

(***************************************************************************)
(* Clone bench: a builder and, once Clone was called, its clone, both      *)
(* written to in any order                                                 *)
(***************************************************************************)
MaxSpare == 1
MaxAppends == 3

Builders == {"q", "clone"}

Other(x) == IF x = "q" THEN "clone" ELSE "q"

\* what a caller reads of a builder: String(), Params() and the callbacks
Shown(heap, b) ==
  [text |-> View(heap, b.query), params |-> View(heap, b.params),
   deferred |-> View(heap, b.deferred)]

NoCloneCall == [op |-> "none", on |-> "q", other |-> Shown(<<>>, NewStored)]

InitClone ==
  /\ db = [t \in TableNames |-> [exists |-> FALSE, cols |-> {}]]
  /\ call = [p \in Procs |-> IdleCall]
  /\ active = {}
  /\ interrupted = [m \in ModelIds |-> NoResume]
  /\ lab = [heap |-> <<>>, b |-> [x \in Builders |-> NewStored], cloned |-> FALSE,
            n |-> 0, last |-> NoCloneCall]

\* the builders the bench can call: the original, and the clone once it is made
Callable == IF lab.cloned THEN Builders ELSE {"q"}

\* the bench after the appending call op on builder x made q1 of it; n counts
\* the appending calls
Appended(op, x, q1, spare) ==
  LET r == Stored(lab.heap, lab.b[x], q1, spare)
  IN  [lab EXCEPT !.heap = r.heap, !.b[x] = r.b, !.n = @ + 1,
                  !.last = [op |-> op, on |-> x,
                            other |-> Shown(lab.heap, lab.b[Other(x)])]]

\* x.Write(text, param): each builder writes a text and a parameter of its own
CloneWrite ==
  /\ \E x \in Callable, spare \in 0..MaxSpare :
       /\ lab.n < MaxAppends
       /\ lab' = Appended("Write", x,
                          Write(Loaded(lab.heap, lab.b[x]), <<x>>, <<x>>), spare)
  /\ UNCHANGED <<db, call, active, interrupted>>

\* x.AddParams(param)
CloneAddParams ==
  /\ \E x \in Callable, spare \in 0..MaxSpare :
       /\ lab.n < MaxAppends
       /\ lab' = Appended("AddParams", x,
                          AddParams(Loaded(lab.heap, lab.b[x]), <<x>>), spare)
  /\ UNCHANGED <<db, call, active, interrupted>>

\* x.Defer(fn)
CloneDefer ==
  /\ \E x \in Callable, spare \in 0..MaxSpare :
       /\ lab.n < MaxAppends
       /\ lab' = Appended("Defer", x,
                          Defer(Loaded(lab.heap, lab.b[x]), x, "note"), spare)
  /\ UNCHANGED <<db, call, active, interrupted>>

\* q.Reset(), before the clone is made
CloneReset ==
  /\ ~lab.cloned /\ lab.last.op \notin {"none", "Reset"}
  /\ lab' = [lab EXCEPT !.b["q"] = ResetStored(@),
                        !.last = [NoCloneCall EXCEPT !.op = "Reset"]]
  /\ UNCHANGED <<db, call, active, interrupted>>

\* clone := q.Clone()
CloneClone ==
  /\ ~lab.cloned
  /\ lab' = [lab EXCEPT !.b["clone"] = Clone(lab.b["q"]), !.cloned = TRUE,
                        !.last = [NoCloneCall EXCEPT !.op = "Clone"]]
  /\ UNCHANGED <<db, call, active, interrupted>>

NextClone ==
  \/ CloneWrite
  \/ CloneAddParams
  \/ CloneDefer
  \/ CloneReset
  \/ CloneClone

SpecClone == InitClone /\ [][NextClone]_vars

(***************************************************************************)

(* Properties                                                              *)
(***************************************************************************)
\* model i of the call has been dealt with (migrated, or the call ended in it)
Processed(c, i) == i < c.mi \/ (c.pc = "done" /\ i <= c.mi)

EventsAt(c, i, by, kind) ==
  SelectSeq(c.log, LAMBDA e : e.mi = i /\ e.by = by /\ e.kind = kind)

\* the statements the migrator itself sent to the executor for model i
MigratorStmts(c, i) == EventsAt(c, i, "migrator", "exec")

\* the HasTable query for model i answered "absent"
FoundAbsent(c, i) ==
  \E k \in DOMAIN c.log :
    /\ c.log[k].kind = "HasTable" /\ c.log[k].mi = i
    /\ c.log[k].err = NoErr /\ ~c.log[k].answer.exists

\* the column sets the TableColumns query answered for model i
ExistingAt(c, i) ==
  {c.log[k].answer.cols : k \in {j \in DOMAIN c.log :
      c.log[j].kind = "TableColumns" /\ c.log[j].mi = i /\ c.log[j].err = NoErr}}

\* the record's unfiltered selection under the migrator's dialect
UnfilteredSelection(m) == Select(SetDialect(Fields(RecordType(m)), "Default")).fields

\* the columns the database reads in the CREATE TABLE statement of model m
CreatedColumns(m) ==
  ParseStmt(CreateStatement([IdleCall EXCEPT !.models = <<m>>, !.mi = 1,
      !.sel = SetDialect(Fields(RecordType(m)), "Default")]).q.query).cols

Mentions(c, i, keyword) ==
  \E k \in DOMAIN c.log : c.log[k].mi = i /\ Contains(c.log[k].text, keyword)



\* C1: migrating a model whose table is absent issues exactly one CREATE
\* TABLE and no ALTER; migrating a model whose table has exactly the columns
\* that CREATE makes issues no statement and calls no callback, and a Migrate
\* of only such models returns an empty Result.
C1_CreateOnceThenNothing ==
  \A p \in Procs :
    LET c == call[p]
    IN  c.op = "Migrate" =>
          /\ \A i \in 1..Len(c.models) :
               (Processed(c, i) /\ FoundAbsent(c, i)) =>
                 LET st == MigratorStmts(c, i)
                 IN  /\ Len(st) = 1
                     /\ Head(st[1].text) = "CREATE TABLE "
                     /\ ParseStmt(st[1].text).table = TableName(c.models[i])
                     /\ ~Mentions(c, i, "ALTER TABLE ")
          /\ \A i \in 1..Len(c.models) :
               (Processed(c, i) /\ CreatedColumns(c.models[i]) \in ExistingAt(c, i)) =>
                 /\ MigratorStmts(c, i) = <<>>
                 /\ \A k \in DOMAIN c.log : c.log[k].mi = i => c.log[k].by = "dbinfo"
          /\ ( /\ c.pc = "done" /\ c.ret.err = NoErr
               /\ \A i \in 1..Len(c.models) :
                    CreatedColumns(c.models[i]) \in ExistingAt(c, i) )
             => c.ret.res = EmptyResult

\* a Migrate(m, m) that created the table of m and, on its second pass, found
\* the created columns and sent nothing
C1_Witness ==
  \E p \in Procs :
    LET c == call[p]
    IN  /\ c.op = "Migrate" /\ c.pc = "done" /\ c.ret.err = NoErr
        /\ Len(c.models) = 2 /\ c.models[1] = c.models[2]
        /\ FoundAbsent(c, 1)
        /\ Len(MigratorStmts(c, 1)) = 1
        /\ CreatedColumns(c.models[2]) \in ExistingAt(c, 2)
        /\ MigratorStmts(c, 2) = <<>>
        /\ c.ret.res.TablesCreated = <<TableName(c.models[1])>>

\* the fields of model m's unfiltered selection whose name is not in E
NewFields(m, E) == SelectSeq(UnfilteredSelection(m), LAMBDA f : f.Name \notin E)

\* the text ALTER TABLE <t> ADD <name> <type>
AlterText(t, f) ==
  <<"ALTER TABLE ">> \o t \o <<" ", "ADD ">> \o f.Name \o <<" ">> \o f.DataType

IsSuffix(s, t) == Len(s) <= Len(t) /\ SubSeq(t, Len(t) - Len(s) + 1, Len(t)) = s

Count(s, tok) == Cardinality({k \in DOMAIN s : s[k] = tok})

\* model i of a Migrate call was migrated without error
Succeeded(c, i) == i < c.mi \/ (c.pc = "done" /\ c.ret.err = NoErr /\ i <= c.mi)

IsAlter(e) == e.by = "migrator" /\ e.kind = "exec" /\ e.col # <<>>

IsMigrateCallback(e) == e.by = "model" /\ e.kind = "Migrate"

\* C3: in the ALTER path the Migrate callback of the model is invoked only
\* directly after a successful ALTER of the same model and with that ALTER's
\* column, a resolved field name that the table did not have; every
\* successful ALTER is followed by its callback before anything else is sent;
\* a failed ALTER is followed by nothing; no column gets two callbacks.
C3_CallbackAfterEachAlter ==
  \A p \in Procs :
    LET c == call[p]
    IN  c.op = "Migrate" =>
          /\ \A k \in DOMAIN c.log :
               IsMigrateCallback(c.log[k]) =>
                 /\ k > 1
                 /\ IsAlter(c.log[k - 1])
                 /\ c.log[k - 1].err = NoErr
                 /\ c.log[k - 1].mi = c.log[k].mi
                 /\ c.log[k - 1].col = c.log[k].col
                 /\ \A E \in ExistingAt(c, c.log[k].mi) : c.log[k].col \notin E
                 /\ \E j \in DOMAIN UnfilteredSelection(c.models[c.log[k].mi]) :
                      UnfilteredSelection(c.models[c.log[k].mi])[j].Name = c.log[k].col
                 /\ \A j \in DOMAIN c.log :
                      (/\ IsMigrateCallback(c.log[j])
                       /\ c.log[j].mi = c.log[k].mi
                       /\ c.log[j].col = c.log[k].col) => j = k
          /\ \A k \in DOMAIN c.log :
               IsAlter(c.log[k]) =>
                 IF c.log[k].err = NoErr
                 THEN IF k = Len(c.log)
                      THEN c.pc = "callback" /\ c.mi = c.log[k].mi
                           /\ c.fields[c.fi].Name = c.log[k].col
                      ELSE /\ IsMigrateCallback(c.log[k + 1])
                           /\ c.log[k + 1].mi = c.log[k].mi
                           /\ c.log[k + 1].col = c.log[k].col
                 ELSE k = Len(c.log) /\ c.pc = "done"

\* a Migrate that added ID and OtherID to t1, each ALTER directly followed
\* by the callback for its column
C3_Witness ==
  \E p \in Procs :
    LET c == call[p]
    IN  /\ c.op = "Migrate" /\ c.pc = "done" /\ c.ret.err = NoErr
        /\ c.models = <<"m1">>
        /\ Len(c.log) >= 6
        /\ IsAlter(c.log[3]) /\ c.log[3].col = <<"ID">>
        /\ IsMigrateCallback(c.log[4]) /\ c.log[4].col = <<"ID">>
        /\ IsAlter(c.log[Len(c.log) - 1]) /\ c.log[Len(c.log) - 1].col = <<"OtherID">>
        /\ IsMigrateCallback(c.log[Len(c.log)]) /\ c.log[Len(c.log)].col = <<"OtherID">>

IsPrefix(s, t) == Len(s) <= Len(t) /\ SubSeq(t, 1, Len(s)) = s

\* the columns of the migrator's ALTER statements for model i, in order
AlteredColumns(c, i) ==
  [k \in 1..Len(MigratorStmts(c, i)) |-> MigratorStmts(c, i)[k].col]

\* C4: when a Migrate stopped (error or crash) with the columns `added` of a
\* model in place and the columns `pending` not yet added, the added columns
\* stay in the table and the pending ones stay absent until a later Migrate of
\* the model; that Migrate computes exactly `pending` as the columns to add,
\* sends ALTERs for them in order and none for an added column.
C4_ResumeAddsTheRest ==
  /\ \A m \in ModelIds :
       interrupted[m].set =>
         /\ db[interrupted[m].table].exists
         /\ interrupted[m].added \subseteq db[interrupted[m].table].cols
         /\ \A k \in DOMAIN interrupted[m].pending :
              interrupted[m].pending[k] \notin db[interrupted[m].table].cols
  /\ \A p \in Procs :
       LET c == call[p]
       IN  (c.op = "Migrate" /\ c.resume.set) =>
             /\ c.diff = c.resume.pending
             /\ c.resume.table = TableName(c.models[c.resume.at])
             /\ IsPrefix(AlteredColumns(c, c.resume.at), c.resume.pending)
             /\ \A k \in DOMAIN AlteredColumns(c, c.resume.at) :
                  AlteredColumns(c, c.resume.at)[k] \notin c.resume.added
             /\ Succeeded(c, c.resume.at) =>
                  AlteredColumns(c, c.resume.at) = c.resume.pending

\* a Migrate of m1 resumed after an earlier one had stopped with ID added and
\* OtherID pending: it sent the one ALTER for OtherID and succeeded
C4_Witness ==
  \E p \in Procs :
    LET c == call[p]
    IN  /\ c.op = "Migrate" /\ c.pc = "done" /\ c.ret.err = NoErr
        /\ c.models = <<"m1">>
        /\ c.resume.set
        /\ c.resume.added = {<<"ID">>}
        /\ c.resume.pending = <<<<"OtherID">>>>
        /\ AlteredColumns(c, 1) = <<<<"OtherID">>>>
        /\ {<<"ID">>, <<"OtherID">>} \subseteq db[<<"t1">>].cols

\* the migrator's CREATE TABLE statements in a call's log
IsCreate(e) ==
  e.by = "migrator" /\ e.kind = "exec" /\ e.col = <<>> /\ e.text # <<>>
  /\ Head(e.text) = "CREATE TABLE "

\* C5: the log of a Migrate call walks the models in argument order without
\* skipping or returning; a failing query, statement or callback ends the
\* call at that model with a nil Result and the error, nothing is sent for a
\* later model, and the tables created and columns added before the failure
\* are still in the schema; a call that ends without error went through all
\* models and returns a Result.
C5_InOrderStopAtFirstFailure ==
  \A p \in Procs :
    LET c == call[p]
    IN  c.op = "Migrate" =>
          /\ \A k \in DOMAIN c.log :
               /\ c.log[k].mi \in 1..c.mi
               /\ k = 1 => c.log[k].mi = 1
               /\ k > 1 => c.log[k].mi \in {c.log[k - 1].mi, c.log[k - 1].mi + 1}
               /\ (k > 1 /\ c.log[k].mi # c.log[k - 1].mi) => c.log[k].kind = "HasTable"
          /\ \A k \in DOMAIN c.log :
               c.log[k].err # NoErr =>
                 /\ c.pc = "done"
                 /\ c.ret.err # NoErr
                 /\ c.ret.res = NilResult
                 /\ c.log[k].mi = c.mi
                 /\ \/ k = Len(c.log)
                    \/ /\ k = Len(c.log) - 1
                       /\ IsMigrateCallback(c.log[k])
                       /\ c.log[k + 1].by = "model" /\ c.log[k + 1].kind = "exec"
          /\ (c.pc = "done" /\ c.ret.err # NoErr) =>
               /\ c.ret.res = NilResult
               /\ c.log # <<>> /\ c.log[Len(c.log)].err # NoErr
          /\ (c.pc = "done" /\ c.ret.err = NoErr) =>
               /\ c.mi = Len(c.models)
               /\ ~c.ret.res.nil
          /\ \A k \in DOMAIN c.log :
               LET e == c.log[k]
                   t == TableName(c.models[e.mi])
               IN  /\ (IsCreate(e) /\ e.err = NoErr) =>
                        db[t].exists /\ CreatedColumns(c.models[e.mi]) \subseteq db[t].cols
                   /\ (IsAlter(e) /\ e.err = NoErr) =>
                        db[t].exists /\ e.col \in db[t].cols

\* a Migrate(m1, m2) that added ID to t1 and then failed on the ALTER for
\* OtherID: nil Result, the error, nothing sent for m2, ID still in t1
C5_Witness ==
  \E p \in Procs :
    LET c == call[p]
    IN  /\ c.op = "Migrate" /\ c.pc = "done"
        /\ c.models = <<"m1", "m2">>
        /\ c.ret.err # NoErr /\ c.ret.res = NilResult
        /\ c.mi = 1
        /\ AlteredColumns(c, 1) = <<<<"ID">>, <<"OtherID">>>>
        /\ MigratorStmts(c, 1)[1].err = NoErr
        /\ MigratorStmts(c, 1)[2].err # NoErr
        /\ \A k \in DOMAIN c.log : c.log[k].mi = 1
        /\ <<"ID">> \in db[<<"t1">>].cols

\* C6: when a CREATE statement, an ALTER statement or a Migrate callback of
\* the model fails, the Migrate call ends and returns a MigrationError with
\* the table name of the model, the column of the ALTER or callback (the
\* empty column for a CREATE) and the error that the statement or callback
\* returned.
C6_FailuresWrapped ==
  \A p \in Procs :
    LET c == call[p]
    IN  c.op = "Migrate" =>
          \A k \in DOMAIN c.log :
            LET e == c.log[k]
            IN  ((IsCreate(e) \/ IsAlter(e) \/ IsMigrateCallback(e)) /\ e.err # NoErr) =>
                  /\ c.pc = "done"
                  /\ c.ret.err.wrapped
                  /\ c.ret.err.Table = TableName(c.models[e.mi])
                  /\ c.ret.err.Column = e.col
                  /\ IsCreate(e) => c.ret.err.Column = <<>>
                  /\ (IsAlter(e) \/ IsMigrateCallback(e)) => c.ret.err.Column # <<>>
                  /\ c.ret.err.Err = e.err.Err
                  /\ e.err.Err # "nil"

\* a Migrate of m1 whose callback for the added column ID failed: the call
\* returned the callback's error wrapped with t1 and ID
C6_Witness ==
  \E p \in Procs :
    LET c == call[p]
    IN  /\ c.op = "Migrate" /\ c.pc = "done"
        /\ c.log # <<>>
        /\ IsMigrateCallback(c.log[Len(c.log)])
        /\ c.log[Len(c.log)].err = RawErr("callback failed")
        /\ c.ret.err = [wrapped |-> TRUE, Table |-> <<"t1">>, Column |-> <<"ID">>,
                        Err |-> "callback failed"]

IsDBInfoQuery(e) == e.by = "dbinfo" /\ e.kind \in {"HasTable", "TableColumns"}

\* C7: (the claim as stated) when the HasTable or TableColumns query fails
\* during Migrate, the error returned to the caller is wrapped with the table
\* name of the model being processed.
C7_QueryFailuresWrapped ==
  \A p \in Procs :
    LET c == call[p]
    IN  c.op = "Migrate" =>
          \A k \in DOMAIN c.log :
            (IsDBInfoQuery(c.log[k]) /\ c.log[k].err # NoErr) =>
              /\ c.pc = "done"
              /\ c.ret.err.wrapped
              /\ c.ret.err.Table = TableName(c.models[c.log[k].mi])

\* a Migrate whose TableColumns query failed and that returned the query's
\* error as it came, with no table name
C7_Witness ==
  \E p \in Procs :
    LET c == call[p]
    IN  /\ c.op = "Migrate" /\ c.pc = "done"
        /\ c.log # <<>>
        /\ c.log[Len(c.log)].kind = "TableColumns"
        /\ c.log[Len(c.log)].err # NoErr
        /\ c.ret.err = c.log[Len(c.log)].err
        /\ ~c.ret.err.wrapped /\ c.ret.err.Table = <<>>

\* the callbacks of the model for model i of a call
CallbacksAt(c, i) == SelectSeq(c.log, LAMBDA e : e.mi = i /\ e.by = "model" /\ e.kind # "exec")

RecordColumns(m) ==
  {UnfilteredSelection(m)[k].Name : k \in DOMAIN UnfilteredSelection(m)}

\* the statements the migrator sent in call c are CREATE TABLE or ALTER TABLE
\* ... ADD statements, and none mentions DROP TABLE
OnlyAdditiveStatements(c) ==
  \A k \in DOMAIN c.log :
    c.log[k].by = "migrator" =>
      /\ ~Contains(c.log[k].text, "DROP TABLE ")
      /\ \/ IsCreate(c.log[k]) /\ ~Contains(c.log[k].text, "ALTER TABLE ")
         \/ /\ IsAlter(c.log[k])
            /\ Contains(c.log[k].text, "ALTER TABLE ")
            /\ Contains(c.log[k].text, "ADD ")
            /\ ~Contains(c.log[k].text, "CREATE TABLE ")

\* C9: a step of a Migrate call never removes a table or a column of the
\* schema, adds to a table only columns of the record of the model being
\* migrated (a column the record does not have, such as the legacy column,
\* stays as it is), and the statements the migrator sends are CREATE TABLE
\* and ALTER TABLE ... ADD statements only, never a DROP TABLE.
C9_AdditiveOnly ==
  [][\A p \in Procs :
       (call[p].op = "Migrate" /\ call'[p] # call[p]) =>
         /\ \A t \in TableNames :
              /\ db[t].exists => db'[t].exists
              /\ db[t].cols \subseteq db'[t].cols
              /\ db'[t] # db[t] =>
                   /\ t = CurTable(call[p])
                   /\ (db'[t].cols \ db[t].cols) \subseteq
                        RecordColumns(call[p].models[call[p].mi])
         /\ OnlyAdditiveStatements(call'[p])]_vars

\* a Migrate(m2, m1) that created t2 and added columns to t1, which still
\* has its legacy column
C9_Witness ==
  \E p \in Procs :
    LET c == call[p]
    IN  /\ c.op = "Migrate" /\ c.pc = "done" /\ c.ret.err = NoErr
        /\ c.models = <<"m2", "m1">>
        /\ Len(MigratorStmts(c, 1)) = 1 /\ IsCreate(MigratorStmts(c, 1)[1])
        /\ Len(MigratorStmts(c, 2)) >= 1 /\ IsAlter(MigratorStmts(c, 2)[1])
        /\ ExistingAt(c, 2) = {{<<"Name">>, LegacyColumn}}
        /\ db[<<"t2">>].exists
        /\ db[<<"t1">>].cols = {<<"ID">>, <<"Name">>, <<"OtherID">>, LegacyColumn}

\* C10: the k-th statement of a Drop call is DROP TABLE <table of the k-th
\* model>, that text only and without parameters; a failing statement is the
\* last one and the call returns its error wrapped with that table's name; a
\* call that ends without error sent one statement per model.
C10_DropOnePerModel ==
  \A p \in Procs :
    LET c == call[p]
    IN  c.op = "Drop" =>
          /\ Len(c.log) <= Len(c.models)
          /\ c.pc = "drop" => Len(c.log) = c.mi - 1
          /\ \A k \in DOMAIN c.log :
               LET e == c.log[k]
               IN  /\ e.by = "migrator" /\ e.kind = "exec"
                   /\ e.mi = k
                   /\ e.text = <<"DROP TABLE ">> \o TableName(c.models[k])
                   /\ e.params = <<>>
                   /\ e.err # NoErr =>
                        /\ k = Len(c.log)
                        /\ c.pc = "done"
                        /\ c.ret.err = [wrapped |-> TRUE, Table |-> TableName(c.models[k]),
                                        Column |-> <<>>, Err |-> e.err.Err]
          /\ (c.pc = "done" /\ c.ret.err = NoErr) => Len(c.log) = Len(c.models)
          /\ (c.pc = "done" /\ c.ret.err # NoErr) =>
               c.log # <<>> /\ c.log[Len(c.log)].err # NoErr

\* a Drop(m1, m2) that dropped t1 and failed on t2: two statements, the
\* second one's error returned with the table name t2
C10_Witness ==
  \E p \in Procs :
    LET c == call[p]
    IN  /\ c.op = "Drop" /\ c.pc = "done"
        /\ c.models = <<"m1", "m2">>
        /\ Len(c.log) = 2
        /\ c.log[1].err = NoErr /\ c.log[1].text = <<"DROP TABLE ", "t1">>
        /\ c.log[2].err # NoErr /\ c.log[2].text = <<"DROP TABLE ", "t2">>
        /\ c.ret.err.wrapped /\ c.ret.err.Table = <<"t2">>
        /\ ~db[<<"t1">>].exists

\* the tables of the CREATE TABLE statements of a call, in log order
TablesOfCreates(c) ==
  LET cr == SelectSeq(c.log, IsCreate)
  IN  [k \in 1..Len(cr) |-> TableName(c.models[cr[k].mi])]

\* table.column for the ALTER statements of a call, in log order
ColumnsOfAlters(c) ==
  LET al == SelectSeq(c.log, IsAlter)
  IN  [k \in 1..Len(al) |-> TableName(c.models[al[k].mi]) \o <<".">> \o al[k].col]

\* C11: a Migrate that ends without error returns a Result whose
\* TablesCreated is the list of the tables of the CREATE TABLE statements the
\* call executed, in order, and whose NewColumns is the list of table.column
\* of the ALTER statements the call executed, in order; a model whose table
\* was created and a model that needed no statement add nothing else.
C11_ResultListsWhatWasDone ==
  \A p \in Procs :
    LET c == call[p]
    IN  (c.op = "Migrate" /\ c.pc = "done" /\ c.ret.err = NoErr) =>
          /\ ~c.ret.res.nil
          /\ c.ret.res.TablesCreated = TablesOfCreates(c)
          /\ c.ret.res.NewColumns = ColumnsOfAlters(c)
          /\ \A i \in 1..Len(c.models) :
               FoundAbsent(c, i) =>
                 \A k \in DOMAIN c.log : c.log[k].mi = i => ~IsAlter(c.log[k])

\* a Migrate(m2, m1) that created t2 and added ID and OtherID to t1
C11_Witness ==
  \E p \in Procs :
    LET c == call[p]
    IN  /\ c.op = "Migrate" /\ c.pc = "done" /\ c.ret.err = NoErr
        /\ c.models = <<"m2", "m1">>
        /\ c.ret.res.TablesCreated = <<<<"t2">>>>
        /\ c.ret.res.NewColumns = << <<"t1", ".", "ID">>, <<"t1", ".", "OtherID">> >>

\* name type, name type, ... for the fields from index k on
RECURSIVE ColumnDefs(_, _)
ColumnDefs(fs, k) ==
  IF k > Len(fs) THEN <<>>
  ELSE (IF k > 1 THEN <<", ">> ELSE <<>>)
       \o fs[k].Name \o <<" ">> \o fs[k].DataType \o ColumnDefs(fs, k + 1)

\* the clauses the CreateTable callback of model m writes, in order
ClausesWritten(m) ==
  IF m = "m1" THEN << <<"PRIMARY KEY (ID)">>, <<"UNIQUE (Name)">> >> ELSE <<>>

RECURSIVE ExtraClauses(_, _)
ExtraClauses(cl, k) ==
  IF k > Len(cl) THEN <<>> ELSE <<", ">> \o cl[k] \o ExtraClauses(cl, k + 1)

\* C12: the CREATE TABLE statement sent for model m is CREATE TABLE <name> (
\* followed by a name type definition for every field of the unfiltered
\* selection in declaration order, separated by commas, then a comma and
\* each clause the CreateTable callback wrote, then the closing parenthesis;
\* it has no parameters and is sent at most once per model of the call, once
\* when the table was found absent.
C12_CreateStatementShape ==
  \A p \in Procs :
    LET c == call[p]
    IN  c.op = "Migrate" =>
          /\ \A k \in DOMAIN c.log :
               IsCreate(c.log[k]) =>
                 LET m == c.models[c.log[k].mi]
                 IN  /\ c.log[k].text =
                          <<"CREATE TABLE ">> \o TableName(m) \o <<" (", " ">>
                          \o ColumnDefs(UnfilteredSelection(m), 1)
                          \o ExtraClauses(ClausesWritten(m), 1) \o <<")">>
                     /\ c.log[k].params = <<>>
                     /\ FoundAbsent(c, c.log[k].mi)
          /\ \A i \in 1..Len(c.models) :
               /\ Len(SelectSeq(MigratorStmts(c, i), IsCreate)) <= 1
               /\ (Processed(c, i) /\ FoundAbsent(c, i)) =>
                    Len(SelectSeq(MigratorStmts(c, i), IsCreate)) = 1

\* a Migrate that created t1 with the three columns of its record and the
\* two clauses of its CreateTable callback
C12_Witness ==
  \E p \in Procs :
    LET c == call[p]
    IN  /\ c.op = "Migrate" /\ c.pc = "done" /\ c.ret.err = NoErr
        /\ c.models = <<"m1">>
        /\ Len(c.log) = 3 /\ IsCreate(c.log[3])
        /\ c.log[3].text =
             <<"CREATE TABLE ", "t1", " (", " ",
               "ID", " ", "BIGINT NOT NULL", ", ",
               "Name", " ", "VARCHAR(255) NOT NULL", ", ",
               "OtherID", " ", "BIGINT NOT NULL", ", ",
               "PRIMARY KEY (ID)", ", ", "UNIQUE (Name)", ")">>
        /\ db[<<"t1">>].cols = {<<"ID">>, <<"Name">>, <<"OtherID">>}

\* the text of the backfill statement of a model's Migrate callback
BackfillText(t, col) == <<"UPDATE ">> \o t \o <<" SET ">> \o col \o <<" = ?">>

\* event e of call c was built from the arguments of c alone: its text and
\* parameters are those of the query or statement for model e.mi of c, an
\* ALTER possibly preceded by what the model's own callback left in the
\* builder of the call
FromOwnCall(c, e) ==
  LET m == c.models[e.mi]
      t == TableName(m)
  IN  CASE e.by = "dbinfo" /\ e.kind = "HasTable" ->
             /\ e.text = HasTableQuery(New("Default"), t).query
             /\ e.params = <<t>>
        [] e.by = "dbinfo" /\ e.kind = "TableColumns" ->
             /\ e.text = TableColumnsQuery(New("Default"), t).query
             /\ e.params = <<t>>
        [] e.by = "model" /\ e.kind = "exec" ->
             e.text = BackfillText(t, e.col) /\ e.params = <<"0">>
        [] e.by = "model" -> e.text = <<>> /\ e.params = <<>>
        [] c.op = "Drop" ->
             e.text = <<"DROP TABLE ">> \o t /\ e.params = <<>>
        [] IsCreate(e) ->
             /\ e.text = <<"CREATE TABLE ">> \o t \o <<" (", " ">>
                         \o ColumnDefs(UnfilteredSelection(m), 1)
                         \o ExtraClauses(ClausesWritten(m), 1) \o <<")">>
             /\ e.params = <<>>
        [] IsAlter(e) ->
             \E j \in DOMAIN UnfilteredSelection(m) :
               LET f == UnfilteredSelection(m)[j]
               IN  /\ f.Name = e.col
                   /\ \/ e.text = AlterText(t, f) /\ e.params = <<>>
                      \/ \E col \in RecordColumns(m) :
                           /\ e.text = BackfillText(t, col) \o <<" ">> \o AlterText(t, f)
                           /\ e.params = <<"0">>
        [] OTHER -> FALSE

\* C13: under any interleaving of the calls of concurrent callers, every
\* query and statement a call sends is built from that call's own arguments
\* in that call's own builder, and the builder and selector of every call
\* carry the dialect the Migrator was constructed with.
C13_StatementsFromOneCall ==
  \A p \in Procs :
    /\ call[p].q.d = "Default"
    /\ call[p].sel.d = "Default"
    /\ \A k \in DOMAIN call[p].log : FromOwnCall(call[p], call[p].log[k])

\* caller p1 found t1 absent and has not yet sent its CREATE TABLE, while the
\* Migrate of caller p2, which also found t1 absent, has created it; the
\* builder of p1 is empty
C13_Witness ==
  /\ call["p1"].op = "Migrate" /\ call["p1"].pc = "create"
  /\ call["p1"].models = <<"m1">>
  /\ call["p2"].op = "Migrate" /\ call["p2"].pc = "done"
  /\ call["p2"].models = <<"m1">>
  /\ call["p2"].ret.res.TablesCreated = <<<<"t1">>>>
  /\ FoundAbsent(call["p1"], 1) /\ FoundAbsent(call["p2"], 1)
  /\ db[<<"t1">>].exists
  /\ call["p1"].q.query = <<>>

\* the filter calls made on the selector were of both kinds
MixedKinds == \E i, j \in DOMAIN lab.kinds : lab.kinds[i] # lab.kinds[j]

\* C14: a selector aborts exactly when an Only call follows an Except call or
\* an Except call follows an Only call, whatever names the calls are given,
\* none included; calls of one kind do not abort, and the filter set is then
\* the union of the names given in all calls, in the mode of that kind.
C14_OnlyExceptExclusive ==
  /\ lab.panic <=> MixedKinds
  /\ lab.kinds = <<>> => lab.s.filterSet = NilSet /\ ~lab.s.filterExclude
  /\ (lab.kinds # <<>> /\ ~MixedKinds) =>
       /\ lab.s.filterSet = MakeSet(lab.given)
       /\ lab.s.filterExclude <=> lab.kinds[1] = "Except"

\* Except() without names after Only() without names: the selector aborted
C14_Witness ==
  /\ lab.kinds = <<"Only", "Except">>
  /\ lab.given = {}
  /\ lab.panic

\* the leaf fields of record type t in declaration order: a field named "-"
\* is left out, a struct field without a tag data type that is neither the
\* time type nor scan-capable stands for its own leaf fields at its position,
\* any other field is a leaf [name, tagType, type]
RECURSIVE LeafFieldsFrom(_, _)
LeafFieldsFrom(t, i) ==
  IF i > Len(t.fields) THEN <<>>
  ELSE LET f == t.fields[i]
           Leaf(name, tagType) ==
             IF name = <<"-">> THEN <<>>
             ELSE IF /\ tagType = <<>>
                     /\ f.Type.kind = "struct"
                     /\ f.Type.id # "time.Time"
                     /\ ~f.Type.scanner
             THEN LeafFieldsFrom(f.Type, 1)
             ELSE << [name |-> name, tagType |-> tagType, type |-> f.Type] >>
           Parsed(parts) ==
             Leaf(IF parts[1] # <<>> THEN parts[1] ELSE f.Name,
                  IF Len(parts) = 2 THEN parts[2] ELSE <<>>)
       IN  Parsed(SplitN2(f.Tag)) \o LeafFieldsFrom(t, i + 1)

LeafFields(t) == LeafFieldsFrom(t, 1)

LeafNames(t) == [k \in 1..Len(LeafFields(t)) |-> LeafFields(t)[k].name]

\* the resolved names of the record type are unique
UniqueNames(t) ==
  \A j, k \in DOMAIN LeafNames(t) : LeafNames(t)[j] = LeafNames(t)[k] => j = k

\* Select returned, after filter calls of the given kind only
Selected(kind) ==
  /\ lab.out.set /\ ~lab.out.panic
  /\ lab.kinds # <<>>
  /\ \A k \in DOMAIN lab.kinds : lab.kinds[k] = kind

\* C15: after Only calls with the names S, Select returns the leaf fields of
\* the record whose resolved name is in S, each once and in declaration
\* order; when the names of S are all on the type, the selected names are
\* exactly S.
C15_OnlySelectsNamed ==
  (Selected("Only") /\ UniqueNames(lab.arg.t)) =>
    /\ Names(lab.out.fields) =
         SelectSeq(LeafNames(lab.arg.t), LAMBDA n : n \in lab.given)
    /\ \A j, k \in DOMAIN lab.out.fields :
         lab.out.fields[j].Name = lab.out.fields[k].Name => j = k
    /\ (\A n \in lab.given : \E k \in DOMAIN LeafNames(lab.arg.t) :
           LeafNames(lab.arg.t)[k] = n) =>
         {lab.out.fields[k].Name : k \in DOMAIN lab.out.fields} = lab.given

\* Only("ID", "OtherID") on fieldsModel selected the top-level ID and the
\* flattened OtherID, in that order
C15_Witness ==
  /\ Selected("Only")
  /\ lab.arg.t = RecordType("m1")
  /\ lab.given = {<<"ID">>, <<"OtherID">>}
  /\ Names(lab.out.fields) = << <<"ID">>, <<"OtherID">> >>

\* the selection of the bench record type with the selector's dialect and
\* no filter
UnfilteredOf(s) == makeFieldSlice(s.t, <<>>, s.d, NilSet, FALSE)

\* C16: after Except calls with the names S, Select returns the unfiltered
\* selection without the fields whose resolved name is in S, in the
\* unfiltered order; a name flattened from a nested record is matched like a
\* top-level name, a name that is not on the type removes nothing.
C16_ExceptRemovesNamed ==
  Selected("Except") =>
    /\ ~UnfilteredOf(lab.s).panic
    /\ lab.out.fields =
         SelectSeq(UnfilteredOf(lab.s).fields, LAMBDA f : f.Name \notin lab.given)
    /\ Names(lab.out.fields) =
         SelectSeq(LeafNames(lab.arg.t), LAMBDA n : n \notin lab.given)

\* Except("OtherID", "nosuch") on fieldsModel removed the nested OtherID,
\* which is no top-level field, and nothing else
C16_Witness ==
  /\ Selected("Except")
  /\ lab.arg.t = RecordType("m1")
  /\ lab.given = {<<"OtherID">>, <<"nosuch">>}
  /\ \A i \in DOMAIN lab.arg.t.fields : lab.arg.t.fields[i].Name # <<"OtherID">>
  /\ Names(lab.out.fields) = << <<"ID">>, <<"Name">> >>

\* the top-level fields of t whose resolved name is the exclusion sentinel
SentinelFields(t) ==
  {i \in DOMAIN t.fields : SplitN2(t.fields[i].Tag)[1] = <<"-">>}

\* the names found only below a sentinel field of t
HiddenNames(t) ==
  {n \in UNION {{LeafNames(t.fields[i].Type)[k] :
                   k \in DOMAIN LeafNames(t.fields[i].Type)} :
                 i \in {j \in SentinelFields(t) : t.fields[j].Type.kind = "struct"}} :
     \A k \in DOMAIN LeafNames(t) : LeafNames(t)[k] # n}

\* C17: a field whose resolved name is "-" is in no selection, whatever the
\* filter calls were, and is no key of the value map; when it is a struct
\* its own fields are not taken either.
C17_SentinelNeverSelected ==
  /\ (lab.out.set /\ ~lab.out.panic) =>
       \A k \in DOMAIN lab.out.fields :
         /\ lab.out.fields[k].Name # <<"-">>
         /\ lab.out.fields[k].Name \notin HiddenNames(lab.arg.t)
  /\ (lab.vm.set /\ ~lab.vm.panic) =>
       /\ <<"-">> \notin DOMAIN lab.vm.values
       /\ DOMAIN lab.vm.values \cap HiddenNames(lab.arg.t) = {}

\* Only("-", "Secret") on the tagged record, whose field Hidden is tagged
\* "-" and holds Secret: Select returned no field; Values returned too
C17_Witness ==
  /\ Selected("Only")
  /\ lab.given = {<<"-">>, <<"Secret">>}
  /\ SentinelFields(lab.arg.t) # {}
  /\ HiddenNames(lab.arg.t) = {<<"Secret">>}
  /\ lab.out.fields = <<>>
  /\ lab.vm.set /\ ~lab.vm.panic

\* the leaf fields of t that carry a data type in their tag
TagTyped(t) == SelectSeq(LeafFields(t), LAMBDA l : l.tagType # <<>>)

\* some leaf field of t needs the type mapper of dialect d, and the mapper
\* fails for its type
MapperFailsOn(t, d) ==
  \E k \in DOMAIN LeafFields(t) :
    /\ LeafFields(t)[k].tagType = <<>>
    /\ ~TypeMapper(d, LeafFields(t)[k].type).ok

\* C18: a field with a data type in its tag is one column with that data
\* type: Select aborts only for a field without one whose type the mapper
\* rejects, and a struct field with a tag data type is not flattened.
C18_TagTypeVerbatim ==
  lab.out.set =>
    /\ lab.out.panic <=> (lab.s.d # "nil" /\ MapperFailsOn(lab.arg.t, lab.s.d))
    /\ ~lab.out.panic =>
         /\ \A k \in DOMAIN lab.out.fields :
              \E j \in DOMAIN LeafFields(lab.arg.t) :
                /\ LeafFields(lab.arg.t)[j].name = lab.out.fields[k].Name
                /\ LeafFields(lab.arg.t)[j].tagType # <<>> =>
                     lab.out.fields[k].DataType = LeafFields(lab.arg.t)[j].tagType
         /\ lab.kinds = <<>> =>
              \A j \in DOMAIN TagTyped(lab.arg.t) :
                \E k \in DOMAIN lab.out.fields :
                  lab.out.fields[k] =
                    Field(TagTyped(lab.arg.t)[j].name, TagTyped(lab.arg.t)[j].tagType)

\* the tagged record under the Default dialect, no filter: the struct Raw is
\* the one column raw JSON, and Odd, of a kind the mapper rejects, is the
\* column Odd BLOB
C18_Witness ==
  /\ lab.out.set /\ ~lab.out.panic
  /\ lab.kinds = <<>>
  /\ lab.s.d = "Default"
  /\ \E j \in DOMAIN TagTyped(lab.arg.t) :
       /\ TagTyped(lab.arg.t)[j].type.kind = "struct"
       /\ TagTyped(lab.arg.t)[j].name = <<"raw">>
  /\ \E j \in DOMAIN TagTyped(lab.arg.t) :
       /\ ~TypeMapper("Default", TagTyped(lab.arg.t)[j].type).ok
       /\ TagTyped(lab.arg.t)[j].name = <<"Odd">>
  /\ \E k \in DOMAIN lab.out.fields : lab.out.fields[k] = Field(<<"raw">>, <<"JSON">>)
  /\ \E k \in DOMAIN lab.out.fields : lab.out.fields[k] = Field(<<"Odd">>, <<"BLOB">>)
  /\ \A k \in DOMAIN lab.out.fields : lab.out.fields[k].Name # <<"X">>

\* C19: with no filter call, Select returns the leaf fields in declaration
\* order, the fields of an inline struct standing at the position of the
\* struct, depth-first; the inline struct itself is no column.
C19_UnfilteredDepthFirst ==
  (lab.out.set /\ ~lab.out.panic /\ lab.kinds = <<>>) =>
    /\ Names(lab.out.fields) = LeafNames(lab.arg.t)
    /\ \A k \in DOMAIN lab.out.fields :
         lab.out.fields[k].DataType =
           IF LeafFields(lab.arg.t)[k].tagType # <<>>
           THEN LeafFields(lab.arg.t)[k].tagType
           ELSE IF lab.s.d = "nil" THEN <<>>
           ELSE TypeMapper(lab.s.d, LeafFields(lab.arg.t)[k].type).dataType

\* the record P, Outer{Q, Inner{R, S}, T}, U selected without a filter gave
\* P, Q, R, S, T, U
C19_Witness ==
  /\ lab.out.set /\ ~lab.out.panic /\ lab.kinds = <<>>
  /\ [i \in DOMAIN lab.arg.t.fields |-> lab.arg.t.fields[i].Name] =
       << <<"P">>, <<"Outer">>, <<"U">> >>
  /\ Names(lab.out.fields) =
       << <<"P">>, <<"Q">>, <<"R">>, <<"S">>, <<"T">>, <<"U">> >>

\* the names of a sequence of fields, as a set
NameSet(fields) == {fields[k].Name : k \in DOMAIN fields}

\* Select with no filter call and Values were both called, on a pointer to
\* the record
BothWalked ==
  /\ lab.arg.ptr
  /\ lab.kinds = <<>>
  /\ lab.out.set /\ lab.vm.set

\* C20 as stated: Values succeeds exactly when the unfiltered Select
\* succeeds, and the keys of the value map are the names of the unfiltered
\* selection.
C20_SameSuccess ==
  BothWalked =>
    /\ lab.vm.panic <=> lab.out.panic
    /\ ~lab.out.panic => DOMAIN lab.vm.values = NameSet(lab.out.fields)

\* C20: Values on a pointer to a record always returns, and its keys are the
\* names a dialect-less unfiltered Select gives; Select with a dialect
\* returns only if Values does, with the same names, and aborts where the
\* type mapper rejects the type of a field that Values binds all the same.
C20_ValuesWalksAsSelect ==
  /\ (lab.vm.set /\ lab.arg.ptr) =>
       /\ ~lab.vm.panic
       /\ DOMAIN lab.vm.values =
            NameSet(makeFieldSlice(lab.arg.t, <<>>, "nil", NilSet, FALSE).fields)
       /\ DOMAIN lab.vm.values =
            {LeafNames(lab.arg.t)[k] : k \in DOMAIN LeafNames(lab.arg.t)}
  /\ BothWalked =>
       /\ lab.out.panic => ~lab.vm.panic
       /\ lab.out.panic <=> (lab.s.d # "nil" /\ MapperFailsOn(lab.arg.t, lab.s.d))
       /\ ~lab.out.panic => DOMAIN lab.vm.values = NameSet(lab.out.fields)

\* the record P, Outer{Q, Inner{R, S}, T}, U: Select under the Default
\* dialect and Values both returned, with the same six names
C20_Witness ==
  /\ BothWalked
  /\ lab.s.d = "Default"
  /\ ~lab.out.panic /\ ~lab.vm.panic
  /\ DOMAIN lab.vm.values =
       {<<"P">>, <<"Q">>, <<"R">>, <<"S">>, <<"T">>, <<"U">>}
  /\ NameSet(lab.out.fields) = DOMAIN lab.vm.values

\* the field of model m's unfiltered selection that is named col
FieldNamed(m, col) ==
  CHOOSE f \in {UnfilteredSelection(m)[k] : k \in DOMAIN UnfilteredSelection(m)} :
    f.Name = col

\* C30: each ALTER statement the migrator sends is ALTER TABLE <table> ADD
\* <column> <type> for one column and nothing else, with no parameters,
\* whatever the Migrate callback did with the builder after the column
\* before.
C30_AlterStatementClean ==
  \A p \in Procs :
    LET c == call[p]
    IN  c.op = "Migrate" =>
          \A k \in DOMAIN c.log :
            IsAlter(c.log[k]) =>
              /\ c.log[k].text =
                   AlterText(TableName(c.models[c.log[k].mi]),
                             FieldNamed(c.models[c.log[k].mi], c.log[k].col))
              /\ c.log[k].params = <<>>

\* after the callback for ID executed a backfill on the builder and returned
\* without resetting it, the ALTER for the next column was sent behind the
\* text of the backfill and with its parameter
C30_Witness ==
  \E p \in Procs :
    LET c == call[p]
    IN  /\ c.op = "Migrate"
        /\ \E k \in DOMAIN c.log :
             /\ k > 2
             /\ IsAlter(c.log[k])
             /\ c.log[k - 1].by = "model" /\ c.log[k - 1].kind = "exec"
             /\ c.log[k - 1].err = NoErr
             /\ Head(c.log[k].text) = "UPDATE "
             /\ IsSuffix(AlterText(TableName(c.models[c.log[k].mi]),
                                   FieldNamed(c.models[c.log[k].mi], c.log[k].col)),
                         c.log[k].text)
             /\ c.log[k].params = <<"0">>

\* the leaf fields of t without a tag data type whose type the mapper of
\* dialect d rejects
Unmappable(t, d) ==
  SelectSeq(LeafFields(t),
            LAMBDA l : l.tagType = <<>> /\ ~TypeMapper(d, l.type).ok)

\* C27: Select under a dialect aborts, whatever the filter calls were, when
\* the record has a field without tag data type whose type the mapper
\* rejects; without a dialect the same Select returns and gives the field an
\* empty data type, and Values binds the field.
C27_UnmappedTypeFatal ==
  /\ (lab.out.set /\ lab.s.d # "nil" /\ Unmappable(lab.arg.t, lab.s.d) # <<>>) =>
       lab.out.panic
  /\ (lab.out.set /\ lab.s.d = "nil") =>
       /\ ~lab.out.panic
       /\ \A k \in DOMAIN lab.out.fields :
            \A j \in DOMAIN Unmappable(lab.arg.t, "Default") :
              Unmappable(lab.arg.t, "Default")[j].name = lab.out.fields[k].Name =>
                lab.out.fields[k].DataType = <<>>
  /\ (lab.vm.set /\ lab.arg.ptr) =>
       /\ ~lab.vm.panic
       /\ \A j \in DOMAIN Unmappable(lab.arg.t, "Default") :
            Unmappable(lab.arg.t, "Default")[j].name \in DOMAIN lab.vm.values

\* the record {ID int; Bad chan}: Select under the Default dialect aborted
\* although Only("ID") leaves Bad out, and Values bound Bad
C27_Witness ==
  /\ lab.kinds = <<"Only">> /\ lab.given = {<<"ID">>}
  /\ lab.s.d = "Default"
  /\ Unmappable(lab.arg.t, "Default") # <<>>
  /\ lab.out.set /\ lab.out.panic
  /\ lab.vm.set /\ ~lab.vm.panic
  /\ <<"Bad">> \in DOMAIN lab.vm.values

\* the scan target of name n for a record of type t: its own field when n is
\* a name Values binds, else the discard target
TargetOf(t, n) ==
  IF \E k \in DOMAIN LeafNames(t) : LeafNames(t)[k] = n
  THEN FieldTarget(Values([ptr |-> TRUE, t |-> t]).values[n])
  ELSE IgnoreTarget

\* C21: MapToColumns and MapToFields return the values they were given
\* followed by one scan target per requested name, in the requested order:
\* the field of the record for a name of the ValueMap, the discard target
\* for any other name.
C21_OneTargetPerName ==
  lab.fn \in {"MapToColumns", "MapToFields"} =>
    /\ Len(lab.out) = Len(lab.in.values.items) + Len(lab.in.names)
    /\ SubSeq(lab.out, 1, Len(lab.in.values.items)) = lab.in.values.items
    /\ \A k \in DOMAIN lab.in.names :
         lab.out[Len(lab.in.values.items) + k] = TargetOf(lab.in.t, lab.in.names[k])

\* MapToColumns("nosuch", "OtherID") on a fieldsModel record, behind two
\* targets already in the slice: the discard target, then the nested field
C21_Witness ==
  /\ lab.fn = "MapToColumns"
  /\ lab.in.t = RecordType("m1")
  /\ lab.in.names = << <<"nosuch">>, <<"OtherID">> >>
  /\ Len(lab.in.values.items) = 2
  /\ Len(lab.out) = 4
  /\ lab.out[3] = IgnoreTarget
  /\ lab.out[4] = FieldTarget(<<3, 1>>)

\* what the MySQL type mapping is to return for type t
MysqlExpected(t) ==
  IF DefaultTypeMapper(t).ok THEN DefaultTypeMapper(t)
  ELSE IF t = NullTimeT THEN [dataType |-> <<"DATETIME NULL">>, ok |-> TRUE]
  ELSE [dataType |-> <<>>, ok |-> FALSE]

\* C26: the MySQL type mapping returns for every type: the base dialect's
\* result when the base maps the type, DATETIME NULL for the driver's
\* nullable timestamp, not-ok for any other type; the fallback call goes to
\* the wrapped base dialect.
C26_MysqlMapperReturns ==
  /\ lab.fn = "mysql.TypeMapper" => lab.out = MysqlExpected(lab.in)
  /\ lab.fn = "mysql.Dialect.TypeMapper" =>
       /\ ~lab.out.overflow
       /\ lab.out.ok = MysqlExpected(lab.in).ok
       /\ lab.out.dataType = MysqlExpected(lab.in).dataType

\* Dialect.TypeMapper called for int, which the base dialect maps to BIGINT
\* NOT NULL, called itself until the stack was full
C26_Witness ==
  /\ lab.fn = "mysql.Dialect.TypeMapper"
  /\ lab.in = Scalar("int")
  /\ DefaultTypeMapper(lab.in) = [dataType |-> <<"BIGINT NOT NULL">>, ok |-> TRUE]
  /\ lab.out.overflow

\* the table of TestDefaultTypeMapper: the SQL type wanted for a type, by
\* kind or by type; a pointer is wanted as its element
WantedTypeOf(t0) ==
  LET t == IF t0.kind = "ptr" THEN t0.elem ELSE t0
      Yes(s) == [dataType |-> <<s>>, ok |-> TRUE]
  IN  CASE t.kind = "string"  -> Yes("VARCHAR(255) NOT NULL")
        [] t.kind \in {"int", "int64"} -> Yes("BIGINT NOT NULL")
        [] t.kind = "int32"   -> Yes("INT NOT NULL")
        [] t.kind = "int16"   -> Yes("SMALLINT NOT NULL")
        [] t.kind = "int8"    -> Yes("TINYINT NOT NULL")
        [] t.kind \in {"uint", "uint64"} -> Yes("BIGINT UNSIGNED NOT NULL")
        [] t.kind = "uint32"  -> Yes("INT UNSIGNED NOT NULL")
        [] t.kind = "uint16"  -> Yes("SMALLINT UNSIGNED NOT NULL")
        [] t.kind = "uint8"   -> Yes("TINYINT UNSIGNED NOT NULL")
        [] t.kind = "float32" -> Yes("FLOAT NOT NULL")
        [] t.kind = "float64" -> Yes("DOUBLE NOT NULL")
        [] t.kind = "bool"    -> Yes("BIT NOT NULL")
        [] t.id = "[]byte"          -> Yes("VARBINARY(255) NULL")
        [] t.id = "time.Time"       -> Yes("DATETIME NOT NULL")
        [] t.id = "sql.NullString"  -> Yes("VARCHAR(255) NULL")
        [] t.id = "sql.NullInt64"   -> Yes("BIGINT NULL")
        [] t.id = "sql.NullFloat64" -> Yes("DOUBLE NULL")
        [] t.id = "sql.NullBool"    -> Yes("BIT NULL")
        [] OTHER -> [dataType |-> <<>>, ok |-> FALSE]

\* C29: DefaultTypeMapper returns for every type the SQL type of the
\* authors' table, bool being BIT NOT NULL and sql.NullBool BIT NULL, a
\* pointer mapping as its element, and ("", false) for a type outside the
\* table.
C29_DefaultMapperTable ==
  lab.fn = "DefaultTypeMapper" => lab.out = WantedTypeOf(lab.in)

\* DefaultTypeMapper(bool) returned BOOLEAN NOT NULL where the table has BIT
\* NOT NULL
C29_Witness ==
  /\ lab.fn = "DefaultTypeMapper"
  /\ lab.in = Scalar("bool")
  /\ lab.out = [dataType |-> <<"BOOLEAN NOT NULL">>, ok |-> TRUE]
  /\ WantedTypeOf(lab.in).dataType = <<"BIT NOT NULL">>

\* the positions of the commas of a tag
Commas(tag) == {i \in DOMAIN tag : tag[i] = ","}

\* the part of a tag before its first comma (the whole tag when it has none)
\* and the part behind it (empty when it has none)
NamePart(tag) ==
  IF Commas(tag) = {} THEN tag
  ELSE SubSeq(tag, 1, (CHOOSE i \in Commas(tag) : \A j \in Commas(tag) : i <= j) - 1)

TypePart(tag) ==
  IF Commas(tag) = {} THEN <<>>
  ELSE SubSeq(tag, (CHOOSE i \in Commas(tag) : \A j \in Commas(tag) : i <= j) + 1,
              Len(tag))

\* C28: the field extractor cuts the tag at its first comma only: a
\* non-empty part before it is the name, else the declared name is kept;
\* all that follows the first comma, further commas included, is the data
\* type as written; with no or an empty second part the tag overrides no
\* data type.
C28_TagSplitAtFirstComma ==
  lab.fn = "extractFieldInfo" =>
    LET f == lab.in.field
    IN  /\ lab.out.name = IF NamePart(f.Tag) # <<>> THEN NamePart(f.Tag) ELSE f.Name
        /\ lab.out.name = <<"-">> => lab.out.ignore /\ lab.out.dataType = <<>>
        /\ (lab.out.name # <<"-">> /\ TypePart(f.Tag) # <<>>) =>
             /\ lab.out.dataType = TypePart(f.Tag)
             /\ ~lab.out.ignore /\ ~lab.out.inlineStruct /\ ~lab.out.panic
        /\ (lab.out.name # <<"-">> /\ TypePart(f.Tag) = <<>>) =>
             /\ ~lab.out.ignore
             /\ lab.out.dataType =
                  IF lab.out.inlineStruct \/ lab.in.d = "nil" \/ lab.out.panic
                  THEN <<>>
                  ELSE TypeMapper(lab.in.d, f.Type).dataType

\* the tag price,DECIMAL(10,2): the name is price and the data type keeps
\* its own comma
C28_Witness ==
  /\ lab.fn = "extractFieldInfo"
  /\ lab.in.field.Tag = <<"price", ",", "DECIMAL(10", ",", "2)">>
  /\ lab.out.name = <<"price">>
  /\ lab.out.dataType = <<"DECIMAL(10", ",", "2)">>

\* C22: First and Scan return the no-record error exactly when the query
\* executed and produced no row; when the executor's query fails, or fetching
\* the first row fails with an error, that failure is what is returned.  The
\* code returns the no-record error whenever rows.Next() is false and never
\* reads rows.Err(), so a failed fetch is reported as "no record found".
C22_NoRecordOnlyWhenNoRow ==
  (lab.last.op \in {"First", "Scan"} /\ ~lab.last.panic)
    => /\ (lab.last.err = ErrNoRecord) <=> (lab.last.r = "noRows")
       /\ lab.last.r \in {"queryErr", "nextErr"} => lab.last.err \notin {NoErr, ErrNoRecord}

\* First or Scan whose first fetch failed has returned the no-record error
C22_Witness ==
  /\ lab.last.op \in {"First", "Scan"}
  /\ lab.last.r = "nextErr"
  /\ lab.last.err = ErrNoRecord

\* C23: Exec, First, Find, Scan and ForEach called on a builder whose
\* statement buffer is empty panic with the empty-query error before the
\* executor is contacted, in every builder state, right after Reset included:
\* nothing is recorded on the builder and no deferred callback runs.
C23_EmptyQueryPanics ==
  (lab.last.op \in TerminalOps /\ lab.last.before.query = <<>>)
    => /\ lab.last.panic
       /\ ~lab.last.contacted
       /\ lab.q = lab.last.before

\* Exec right after Reset has panicked
C23_Witness ==
  /\ lab.last.op = "Exec"
  /\ lab.last.prev = "Reset"
  /\ lab.last.before.query = <<>>
  /\ lab.last.panic

\* the ids of the callbacks the last operation ran, in the order they ran
RanIds == [k \in DOMAIN lab.q.ran |-> lab.q.ran[k].id]

\* C24: the callbacks registered with Defer and DeferSuccess run, once each
\* and in registration order, after the terminal operation has settled and
\* recorded its error; a Defer callback runs on success and on failure, a
\* DeferSuccess callback only when the operation did not fail.  A Defer
\* callback that resets the builder, registered before a DeferSuccess
\* callback, clears the recorded error: the DeferSuccess callback then runs
\* although the operation failed.
C24_DeferredRunOncePerOperation ==
  (lab.last.op \in TerminalOps /\ ~lab.last.panic)
    => LET fns == lab.last.before.deferred
       IN  /\ \A k \in DOMAIN fns :
                ~fns[k].onSuccess => \E j \in DOMAIN RanIds : RanIds[j] = fns[k].id
           /\ \A i, j \in DOMAIN RanIds : i < j => RanIds[i] < RanIds[j]
           /\ \A j \in DOMAIN RanIds : \E k \in DOMAIN fns : fns[k].id = RanIds[j]
           /\ (lab.last.err # NoErr /\ lab.q.ran # <<>>)
                => lab.q.ran[1].err = lab.last.err
           /\ \A k \in DOMAIN fns :
                (fns[k].onSuccess /\ \E j \in DOMAIN RanIds : RanIds[j] = fns[k].id)
                  => lab.last.err = NoErr

\* a failed operation has run a DeferSuccess callback
C24_Witness ==
  /\ lab.last.op \in TerminalOps
  /\ ~lab.last.panic
  /\ lab.last.err # NoErr
  /\ \E k \in DOMAIN lab.last.before.deferred :
       /\ lab.last.before.deferred[k].onSuccess
       /\ \E j \in DOMAIN lab.q.ran : lab.q.ran[j].id = lab.last.before.deferred[k].id

\* C25: Write(text) appends text to the statement buffer followed by a single
\* space, and Writef appends its formatted text followed by a single space,
\* whether the buffer was empty or not.  The code writes the separator before
\* the text, and only when the buffer is not empty; nothing follows the text.
C25_WriteAppendsTrailingSpace ==
  lab.last.op \in {"Write", "Writef"}
    => lab.q.query = lab.last.before.query \o lab.last.text \o Space

\* a Write on an empty buffer has left the text alone in the buffer
C25_Witness ==
  /\ lab.last.op \in {"Write", "Writef"}
  /\ lab.last.before.query = <<>>
  /\ lab.last.text # <<>>
  /\ lab.q.query = lab.last.text

\* the k fragments WriteValues is to write: the format instantiated for
\* positions 0..k-1, joined by sep
BindFragments(q, k) ==
  JoinParts(q, <<phBindVar>>, FieldSep, [i \in 1..k |-> Field(<<>>, <<>>)], 1)

\* C31: WriteValues(format, sep, v1..vk) with k >= 1 and a format that uses
\* only the bind-variable placeholder appends the k instantiated fragments
\* joined by sep to the statement and v1..vk to the parameter list, without
\* aborting.  The code hands writeFormat a nil field list and writeFormat
\* evaluates &fields[0], so every such call panics.
C31_WriteValuesAppends ==
  (lab.last.op = "WriteValues" /\ Len(lab.last.text) >= 1)
    => /\ ~lab.last.panic
       /\ lab.q.query = writeSep(lab.last.before).query
                          \o BindFragments(lab.last.before, Len(lab.last.text))
       /\ lab.q.params = lab.last.before.params \o lab.last.text

\* WriteValues with one value has panicked
C31_Witness ==
  /\ lab.last.op = "WriteValues"
  /\ Len(lab.last.text) = 1
  /\ lab.last.panic

\* C32: Reset empties the statement text, the parameter list and the list of
\* deferred callbacks, clears the recorded error, rows-affected and
\* last-insert-id, and restores the separator to a single space; the
\* executor, the dialect and the pre-write text stay as they were; the first
\* Write after Reset produces its text with no separator before it.
C32_ResetClearsBuilder ==
  /\ lab.last.op = "Reset"
       => /\ lab.q.query = <<>>
          /\ lab.q.params = <<>>
          /\ lab.q.deferred = <<>>
          /\ lab.q.err = NoErr
          /\ lab.q.rowsAffected = 0
          /\ lab.q.lastInsertID = 0
          /\ lab.q.sep = Space
          /\ lab.q.ex = lab.last.before.ex
          /\ lab.q.d = lab.last.before.d
          /\ lab.q.preWrite = lab.last.before.preWrite
  /\ (lab.last.op \in {"Write", "Writef"} /\ lab.last.prev = "Reset")
       => lab.q.query = lab.last.text
  /\ (lab.last.op \in {"Write", "Writef"} /\ lab.last.before.query # <<>>)
       => lab.q.query = lab.last.before.query \o lab.last.before.sep \o lab.last.text

\* Reset of a builder that had its separator and pre-write text set, callbacks
\* registered, and a failed operation behind it
C32_Witness ==
  /\ lab.last.op = "Reset"
  /\ lab.last.before.sep # Space
  /\ lab.last.before.preWrite # <<>>
  /\ lab.last.before.query # <<>>
  /\ lab.last.before.params # <<>>
  /\ lab.last.before.deferred # <<>>
  /\ lab.last.before.err # NoErr

\* the callbacks registered for the last operation that are on-success ones
SuccessIds ==
  {lab.last.before.deferred[k].id :
     k \in {j \in DOMAIN lab.last.before.deferred : lab.last.before.deferred[j].onSuccess}}

\* C36: after a terminal operation returns, the builder's recorded error is
\* the error the operation returned (nil on success), so the on-success
\* callbacks run exactly when the operation succeeded, also on a builder that
\* was not reset after an earlier failure.  Find and ForEach return nil on
\* success without recording it: the error of the earlier operation stays,
\* and the on-success callbacks of the successful operation do not run.
C36_ErrorIsLastResult ==
  (lab.last.op \in TerminalOps /\ ~lab.last.panic)
    => /\ lab.q.err = lab.last.err
       /\ \A id \in SuccessIds :
            (\E j \in DOMAIN lab.q.ran : lab.q.ran[j].id = id) <=> (lab.last.err = NoErr)

\* a successful Find on a builder that still holds an earlier failure: the
\* failure is still recorded and an on-success callback was skipped
C36_Witness ==
  /\ lab.last.op \in {"Find", "ForEach"}
  /\ ~lab.last.panic
  /\ lab.last.err = NoErr
  /\ lab.last.before.err # NoErr
  /\ lab.q.err = lab.last.before.err
  /\ \A k \in DOMAIN lab.last.before.deferred : lab.last.before.deferred[k].act = "note"
  /\ \E id \in SuccessIds : \A j \in DOMAIN lab.q.ran : lab.q.ran[j].id # id

\* the Migrate callbacks of model i in a call's log that returned no error
CompletedCallbacks(c, i) ==
  {c.log[k].col : k \in {j \in DOMAIN c.log :
      IsMigrateCallback(c.log[j]) /\ c.log[j].mi = i /\ c.log[j].err = NoErr}}

\* C33: the per-column callback of every column added by ALTER eventually
\* completes: when the callback failed after the ALTER of column c succeeded,
\* a later Migrate of the same model that succeeds has invoked the callback
\* for c again.  The later Migrate finds c among the table's columns, leaves
\* it out of the selection and never calls the callback for it.
C33_FailedCallbackRetried ==
  \A p \in Procs :
    LET c == call[p]
    IN  (c.op = "Migrate" /\ c.resume.set /\ c.resume.owed # <<>>
           /\ Succeeded(c, c.resume.at))
          => c.resume.owed \in CompletedCallbacks(c, c.resume.at)

\* a Migrate of m1 that followed a failed callback for some column has
\* returned success without a callback for that column
C33_Witness ==
  \E p \in Procs :
    LET c == call[p]
    IN  /\ c.op = "Migrate" /\ c.pc = "done" /\ c.ret.err = NoErr
        /\ c.resume.set /\ c.resume.owed # <<>>
        /\ c.resume.owed \in db[c.resume.table].cols
        /\ \A k \in DOMAIN c.log : ~(IsMigrateCallback(c.log[k]) /\ c.log[k].col = c.resume.owed)

\* caller p is about to send the CREATE TABLE or the ALTER of its Migrate to
\* a database in which another call has made it already
Overtaken(p) ==
  LET c == call[p]
  IN  /\ c.op = "Migrate"
      /\ \/ c.pc = "create" /\ db[CurTable(c)].exists
         \/ c.pc = "alter" /\ c.fields[c.fi].Name \in db[CurTable(c)].cols

\* C34: when two Migrate calls for one model run concurrently on a schema
\* without the table, at most one CREATE TABLE is issued and neither call
\* fails because the other created the table between its existence check and
\* its CREATE; likewise no two calls issue an ALTER adding the same column:
\* no call sends its CREATE or ALTER once another call has made it.  The code
\* checks and then acts without a lock or a transaction.
C34_NoDuplicateDDL ==
  [][\A p \in Procs : call'[p] # call[p] => ~Overtaken(p)]_vars

\* both callers found t1 absent and sent CREATE TABLE t1: the one of p2
\* created the table, the one of p1 was refused and its Migrate failed
C34_Witness ==
  /\ call["p1"].op = "Migrate" /\ call["p2"].op = "Migrate"
  /\ call["p1"].models = <<"m1">> /\ call["p2"].models = <<"m1">>
  /\ FoundAbsent(call["p1"], 1) /\ FoundAbsent(call["p2"], 1)
  /\ \E k \in DOMAIN call["p2"].log : IsCreate(call["p2"].log[k]) /\ call["p2"].log[k].err = NoErr
  /\ \E k \in DOMAIN call["p1"].log : IsCreate(call["p1"].log[k]) /\ call["p1"].log[k].err # NoErr
  /\ call["p1"].pc = "done" /\ call["p1"].ret.err # NoErr
  /\ call["p2"].pc = "done" /\ call["p2"].ret.err = NoErr

\* C35: when Migrate has migrated a model without error, the executor and
\* the DBInfo answering faithfully, the model's table exists and every column
\* of the record's unfiltered selection is a column of it.
C35_MigratedTableComplete ==
  \A p \in Procs :
    LET c == call[p]
    IN  c.op = "Migrate" =>
          \A i \in 1..Len(c.models) :
            Succeeded(c, i) =>
              /\ db[TableName(c.models[i])].exists
              /\ RecordColumns(c.models[i]) \subseteq db[TableName(c.models[i])].cols

\* Migrate(m1) has returned success after adding ID and OtherID to a table
\* that had neither
C35_Witness ==
  \E p \in Procs :
    LET c == call[p]
    IN  /\ c.op = "Migrate" /\ c.pc = "done" /\ c.ret.err = NoErr
        /\ c.models = <<"m1">>
        /\ AlteredColumns(c, 1) = << <<"ID">>, <<"OtherID">> >>
        /\ RecordColumns("m1") \subseteq db[<<"t1">>].cols

\* C37: two scans running at the same time on different builders into
\* different record instances write to disjoint storage: no target that
\* MapToColumns or MapToFields produced for one is a target of the other,
\* the targets of unmapped names included.  Every unmapped name gets the
\* address of the one package-level variable ignore, in every call.
C37_ScanTargetsDisjoint ==
  lab.fn = "TwoScans" => lab.out.a \cap lab.out.b = {}

\* two scans of a column list with a column the record does not have: both
\* target lists hold the address of ignore, and nothing else in common
C37_Witness ==
  /\ lab.fn = "TwoScans"
  /\ lab.out.a \cap lab.out.b = {Address("a", IgnoreTarget)}
  /\ \E x \in lab.out.a : x.obj = "a"

\* what a caller reads in element el of the destination slice
Deref(heap, el) == IF el.ref THEN heap[el.obj] ELSE el.val

\* the element Find is to make of row k: the fields named by a column hold
\* that column's value of row k, the others are zero
ElementOfRow(t, columns, k) ==
  LET paths == makeValueMap(t, <<>>, EmptyValueMap)
  IN  [p \in DOMAIN ZeroElement(t) |->
         IF \E i \in DOMAIN columns :
              columns[i] \in DOMAIN paths /\ paths[columns[i]] = p
         THEN <<k, CHOOSE c \in DOMAIN paths : paths[c] = p>>
         ELSE <<>>]

\* C39: Find appends one new element per result row, in row order, after the
\* elements the destination slice held already, each element with storage of
\* its own, so that no later row changes an earlier element; when scanning
\* row k fails, that error is returned and the elements of rows 1..k-1 stay
\* appended.
C39_FindAppendsPerRow ==
  lab.fn = "Find" =>
    LET in    == lab.in
        out   == lab.out
        taken == IF in.failAt = 0 THEN in.rows ELSE in.failAt - 1
    IN  /\ Len(out.dest) = in.prior + taken
        /\ \A j \in 1..in.prior : Deref(out.heap, out.dest[j]) = ZeroElement(in.t)
        /\ \A k \in 1..taken :
             Deref(out.heap, out.dest[in.prior + k]) = ElementOfRow(in.t, in.columns, k)
        /\ \A i, j \in DOMAIN out.dest :
             (i # j /\ out.dest[i].ref) => out.dest[i].obj # out.dest[j].obj
        /\ (out.err # NoErr) <=> (in.failAt # 0)

\* Find into a []*T that held one element: the two rows of the result were
\* appended after it, and a column of the result named a field
C39_Witness ==
  /\ lab.fn = "Find"
  /\ lab.in.elemIsPtr /\ lab.in.prior = 1
  /\ lab.in.rows = 2 /\ lab.in.failAt = 0
  /\ Len(lab.out.dest) = 3
  /\ Deref(lab.out.heap, lab.out.dest[2]) # Deref(lab.out.heap, lab.out.dest[3])

\* C38: Clone returns a builder independent of the original: after cloning,
\* a Write, AddParams or Defer call on one of the two builders leaves the
\* statement text, the parameter list and the callback list of the other as
\* they were.  Clone copies the buffer and the two slices by value, so both
\* builders append into the same arrays wherever capacity is left.
C38_CloneIndependent ==
  (lab.cloned /\ lab.last.op \in {"Write", "AddParams", "Defer"})
    => Shown(lab.heap, lab.b[Other(lab.last.on)]) = lab.last.other

\* a Write on the clone has changed the text and the parameters the original
\* had written after the cloning
C38_Witness ==
  /\ lab.cloned
  /\ lab.last.op = "Write" /\ lab.last.on = "clone"
  /\ lab.last.other.text # <<>>
  /\ Shown(lab.heap, lab.b["q"]).text # lab.last.other.text
  /\ Shown(lab.heap, lab.b["q"]).params # lab.last.other.params

====
